---- MODULE Spec2Model ----
(***************************************************************************)
(* Hash Array Mapped Trie of go-hamt: the copy-on-write HamtFunctional     *)
(* (src/hamt32/hamt_functional.go, src/hamt32/hamt_common.go) and the      *)
(* in-place Hamt (src/unnamed/part_001), over one heap of tables.          *)
(*                                                                         *)
(* Tables live in a heap (id -> table) so that copy(), in-place mutation   *)
(* and sharing between versions are visible.  Leaves are immutable values  *)
(* stored in the slots.  The hash width and the digit width are scaled     *)
(* down (hashSize, IndexBits); every other constant is derived from them   *)
(* as in the source.                                                       *)
(***************************************************************************)
EXTENDS Integers, Sequences, FiniteSets, TLC

(***************************************************************************)
(* Bounds                                                                  *)
(***************************************************************************)
\* number of keys the caller draws from
NumKeys == 6
\* number of values the caller draws from
NumVals == 2
\* width of hashVal in bits (32 in hamt32, 60 in hamt64), scaled down
hashSize == 10
\* bits per digit (5 in hamt32, 6 in hamt64), scaled down
IndexBits == 3

Keys == 1..NumKeys
Vals == 1..NumVals
\* the nil value returned on a miss
NoVal == 0
\* the value a key is first stored under
FirstVal == CHOOSE v \in Vals : \A w \in Vals : v <= w

(***************************************************************************)
(* Constants of src/unnamed/part_000 and src/unnamed/part_001              *)
(***************************************************************************)
DepthLimit == hashSize \div IndexBits
remainder == hashSize - (DepthLimit * IndexBits)
IndexLimit == 2^IndexBits
maxDepth == DepthLimit - 1
maxIndex == IndexLimit - 1
DowngradeThreshold == (IndexLimit * 3) \div 8
UpgradeThreshold == IndexLimit \div 2

nBits == IndexBits
tableCapacity == 2^nBits
downgradeThreshold_Near == (tableCapacity \div 2) - 1
downgradeThreshold == tableCapacity \div 8
upgradeThreshold == tableCapacity \div 2

FixedTables == "FixedTables"
SparseTables == "SparseTables"
HybridTables == "HybridTables"
TableOptions == {FixedTables, SparseTables, HybridTables}

(***************************************************************************)
(* Hash values.  The hash function is a collaborator: each key is given    *)
(* its digits, chosen so that keys 1..4 share digit 0 and differ at digit  *)
(* 1, keys 5 and 11 have the hash of key 1, key 6 shares digits 0 and 1    *)
(* with key 2, and keys 7, 9 and 10 differ from all at digit 0.            *)
(***************************************************************************)
KeyDigits ==
  << <<1, 0, 0>>, <<1, 1, 0>>, <<1, 2, 0>>, <<1, 3, 0>>,
     <<1, 0, 0>>, <<1, 1, 1>>, <<2, 0, 0>>, <<2, 1, 0>>,
     <<3, 0, 0>>, <<4, 0, 0>>, <<1, 0, 0>> >>

RECURSIVE HashFrom(_, _)
HashFrom(k, d) ==
  IF d > maxDepth \/ d >= Len(KeyDigits[k]) THEN 0
  ELSE KeyDigits[k][d + 1] * (IndexLimit^d) + HashFrom(k, d + 1)

\* the hash function's value for k at the full width of hashVal: the digits
\* of k packed IndexBits per depth, and above them the remainder bits, set
\* for keys 5..9
Hash_WithTail(k) ==
  HashFrom(k, 0) + ((k \div 5) % (2^remainder)) * (IndexLimit^DepthLimit)

\* k.Hash(): the DepthLimit digits of k, the remainder bits dropped
Hash(k) == Hash_WithTail(k) % (IndexLimit^DepthLimit)

\* hashVal.Index(depth): (hash >> (depth*IndexBits)) & maxIndex
Index(hv, depth) == (hv \div (IndexLimit^depth)) % IndexLimit

\* hashVal.hashPath(depth): digits 0..depth-1 kept, the rest zero
hashPath(hv, depth) == hv % (IndexLimit^depth)

\* hashPath | idx << (depth*nBits)
BuildHashPath(hp, idx, depth) == hp + idx * (IndexLimit^depth)

\* the keys the caller stores under every value: key 1 and key 5 (one hash,
\* a collision leaf) and key 6 (pushed down next to key 2); the caller
\* stores each other key under one value
ValKeys == {1, 5, 6}

ValsOf(k) == IF k \in ValKeys THEN Vals ELSE {FirstVal}

(***************************************************************************)
(* Nodes: nil, flat leaf, collision leaf, or a reference to a table        *)
(***************************************************************************)
Nil == [kind |-> "nil"]
tblRef(id) == [kind |-> "tbl", id |-> id]
isNil(n) == n.kind = "nil"
isLeaf(n) == n.kind \in {"flat", "coll"}
isTable(n) == n.kind = "tbl"

newFlatLeaf(k, v) == [kind |-> "flat", key |-> k, val |-> v]
newCollisionLeaf(kvs) == [kind |-> "coll", kvs |-> kvs]

keyVals(l) ==
  IF l.kind = "flat" THEN << [key |-> l.key, val |-> l.val] >> ELSE l.kvs

\* leafI.Hash(): the hash common to the keys of the leaf
leafHash(l) == Hash(keyVals(l)[1].key)

\* position of k in a list of pairs, 0 when absent
kvIndex(kvs, k) ==
  IF \E i \in 1..Len(kvs) : kvs[i].key = k
  THEN CHOOSE i \in 1..Len(kvs) : kvs[i].key = k /\ \A j \in 1..(i - 1) : kvs[j].key # k
  ELSE 0

leafGet(l, k) ==
  LET kvs == keyVals(l)
      i == kvIndex(kvs, k)
  IN IF i = 0 THEN [val |-> NoVal, found |-> FALSE]
     ELSE [val |-> kvs[i].val, found |-> TRUE]

\* leafI.put: flat leaf with the same key -> new flat leaf, not added;
\* flat leaf with another key -> collision leaf of both, added;
\* collision leaf -> value replaced at its position, or pair appended
leafPut_KeepsValue(l, k, v) ==
  LET kvs == keyVals(l)
  IN IF kvIndex(kvs, k) # 0 THEN [leaf |-> l, added |-> FALSE]
     ELSE [leaf |-> newCollisionLeaf(Append(kvs, [key |-> k, val |-> v])),
           added |-> TRUE]

leafPut(l, k, v) ==
  LET kvs == keyVals(l)
      i == kvIndex(kvs, k)
  IN IF l.kind = "flat"
     THEN IF i # 0 THEN [leaf |-> newFlatLeaf(k, v), added |-> FALSE]
          ELSE [leaf |-> newCollisionLeaf(Append(kvs, [key |-> k, val |-> v])),
                added |-> TRUE]
     ELSE IF i # 0
          THEN [leaf |-> newCollisionLeaf([kvs EXCEPT ![i].val = v]), added |-> FALSE]
          ELSE [leaf |-> newCollisionLeaf(Append(kvs, [key |-> k, val |-> v])),
                added |-> TRUE]

\* leafI.del: the replacement leaf is Nil when a flat leaf loses its pair,
\* a flat leaf when one pair remains, a shorter collision leaf otherwise
leafDel_KeepsCollision(l, k) ==
  LET kvs == keyVals(l)
      i == kvIndex(kvs, k)
      rest == SubSeq(kvs, 1, i - 1) \o SubSeq(kvs, i + 1, Len(kvs))
  IN IF i = 0 THEN [leaf |-> l, val |-> NoVal, deleted |-> FALSE]
     ELSE IF l.kind = "flat" THEN [leaf |-> Nil, val |-> kvs[i].val, deleted |-> TRUE]
     ELSE [leaf |-> newCollisionLeaf(rest), val |-> kvs[i].val, deleted |-> TRUE]

leafDel(l, k) ==
  LET kvs == keyVals(l)
      i == kvIndex(kvs, k)
      rest == SubSeq(kvs, 1, i - 1) \o SubSeq(kvs, i + 1, Len(kvs))
  IN IF i = 0 THEN [leaf |-> l, val |-> NoVal, deleted |-> FALSE]
     ELSE IF l.kind = "flat" THEN [leaf |-> Nil, val |-> kvs[i].val, deleted |-> TRUE]
     ELSE IF Len(rest) = 1
          THEN [leaf |-> newFlatLeaf(rest[1].key, rest[1].val),
                val |-> kvs[i].val, deleted |-> TRUE]
          ELSE [leaf |-> newCollisionLeaf(rest), val |-> kvs[i].val, deleted |-> TRUE]

(***************************************************************************)
(* Tables.  A fixed table keeps IndexLimit slots; a sparse table keeps a   *)
(* bitmap (the set of present indices) and the children packed in index    *)
(* order.  depth and hashPath locate the table in the trie.                *)
(***************************************************************************)
newFixedTable(depth, hp) ==
  [fixed |-> TRUE, depth |-> depth, hashPath |-> hp, bitMap |-> {},
   nodes |-> [i \in 0..maxIndex |-> Nil]]

newSparseTable(depth, hp) ==
  [fixed |-> FALSE, depth |-> depth, hashPath |-> hp, bitMap |-> {},
   nodes |-> << >>]

\* popcount(bitmap & ((1<<i)-1)), as a position of a 1-based sequence
packedIndex(bitMap, i) == Cardinality({j \in bitMap : j < i}) + 1

tableGet(t, i) ==
  IF t.fixed THEN t.nodes[i]
  ELSE IF i \in t.bitMap THEN t.nodes[packedIndex(t.bitMap, i)] ELSE Nil

tableNentries(t) ==
  IF t.fixed THEN Cardinality({i \in 0..maxIndex : ~isNil(t.nodes[i])})
  ELSE Len(t.nodes)

\* insert: slot i was empty
tableInsert(t, i, n) ==
  IF t.fixed THEN [t EXCEPT !.nodes[i] = n]
  ELSE LET p == packedIndex(t.bitMap, i)
       IN [t EXCEPT !.bitMap = @ \cup {i},
                    !.nodes = SubSeq(@, 1, p - 1) \o << n >> \o SubSeq(@, p, Len(@))]

\* replace: slot i was occupied
tableReplace(t, i, n) ==
  IF t.fixed THEN [t EXCEPT !.nodes[i] = n]
  ELSE [t EXCEPT !.nodes[packedIndex(t.bitMap, i)] = n]

\* remove: slot i was occupied
tableRemove(t, i) ==
  IF t.fixed THEN [t EXCEPT !.nodes[i] = Nil]
  ELSE LET p == packedIndex(t.bitMap, i)
       IN [t EXCEPT !.bitMap = @ \ {i},
                    !.nodes = SubSeq(@, 1, p - 1) \o SubSeq(@, p + 1, Len(@))]

\* set: store n at slot i whatever the slot held; a nil n empties the slot
tableSet(t, i, n) ==
  IF isNil(n)
  THEN IF isNil(tableGet(t, i)) THEN t ELSE tableRemove(t, i)
  ELSE IF isNil(tableGet(t, i)) THEN tableInsert(t, i, n) ELSE tableReplace(t, i, n)

\* entries(): the occupied slots as (idx, node), ascending by index
RECURSIVE entriesFrom(_, _)
entriesFrom(t, i) ==
  IF i > maxIndex THEN << >>
  ELSE LET n == tableGet(t, i)
       IN IF isNil(n) THEN entriesFrom(t, i + 1)
          ELSE << [idx |-> i, node |-> n] >> \o entriesFrom(t, i + 1)

tableEntries(t) == entriesFrom(t, 0)

RECURSIVE insertAll(_, _)
insertAll(t, ents) ==
  IF ents = << >> THEN t
  ELSE insertAll(tableInsert(t, ents[1].idx, ents[1].node), Tail(ents))

(***************************************************************************)
(* The heap of tables                                                      *)
(***************************************************************************)
\* the address of the next table allocated
newId(hp) == Len(hp) + 1

\* allocate a table holding the value t
alloc(hp, t) ==
  LET id == newId(hp)
  IN [heap |-> Append(hp, t), id |-> id]

store(hp, id, t) == [hp EXCEPT ![id] = t]

\* tableI.copy(): a new table with the same depth, hashPath and children
copy_WithChild(hp, id) ==
  LET c == alloc(hp, hp[id])
      kids == {i \in 0..(IndexLimit - 1) : isTable(tableGet(hp[id], i))}
      i == CHOOSE x \in kids : \A y \in kids : y <= x
      k == alloc(c.heap, hp[tableGet(hp[id], i).id])
  IN IF kids = {} THEN c
     ELSE [heap |-> store(k.heap, c.id, tableReplace(hp[id], i, tblRef(k.id))),
           id |-> c.id]

copy(hp, id) == alloc(hp, hp[id])

\* in-place mutations of the table id
insert(hp, id, i, n) == store(hp, id, tableInsert(hp[id], i, n))
replace(hp, id, i, n) == store(hp, id, tableReplace(hp[id], i, n))
remove(hp, id, i) == store(hp, id, tableRemove(hp[id], i))
set(hp, id, i, n) == store(hp, id, tableSet(hp[id], i, n))

\* a fixed table at the same depth and hashPath holding the entries
upgradeToFixedTable_NoPrefix(hp, hashP, depth, ents) ==
  alloc(hp, insertAll(newFixedTable(depth, 0), ents))

upgradeToFixedTable(hp, hashP, depth, ents) ==
  alloc(hp, insertAll(newFixedTable(depth, hashP), ents))

\* a sparse table at the same depth and hashPath holding the entries
downgradeToSparseTable(hp, hashP, depth, ents) ==
  alloc(hp, insertAll(newSparseTable(depth, hashP), ents))

\* the root table: a fixed table at depth 0 holding one leaf
createRootTable(hp, leaf) ==
  alloc(hp, tableInsert(newFixedTable(0, 0), Index(leafHash(leaf), 0), leaf))

\* createFixedTable / createSparseTable: a table at depth with prefix hashP
\* holding both leaves; when their digits at depth agree the construction
\* descends, and at maxDepth it ends in a collision leaf
RECURSIVE createTableOf(_, _, _, _, _, _)
createTableOf_Deeper(hp, fixed, depth, hashP, leaf1, leaf2) ==
  LET empty == IF fixed THEN newFixedTable(depth, hashP) ELSE newSparseTable(depth, hashP)
      idx1 == Index(leafHash(leaf1), depth)
      idx2 == Index(leafHash(leaf2), depth)
      below == newSparseTable(depth + 1, BuildHashPath(hashP, idx1, depth))
      inner == alloc(hp, tableInsert(tableInsert(below, idx1, leaf1), idx2, leaf2))
  IN IF idx1 # idx2
     THEN alloc(inner.heap, tableInsert(empty, idx1, tblRef(inner.id)))
     ELSE IF depth >= maxDepth
          THEN alloc(hp, tableInsert(empty, idx1,
                           newCollisionLeaf(keyVals(leaf1) \o keyVals(leaf2))))
          ELSE LET sub == createTableOf(hp, fixed, depth + 1,
                                        BuildHashPath(hashP, idx1, depth), leaf1, leaf2)
               IN alloc(sub.heap, tableInsert(empty, idx1, tblRef(sub.id)))

createTableOf_Misplaced(hp, fixed, depth, hashP, leaf1, leaf2) ==
  LET empty == IF fixed THEN newFixedTable(depth, hashP) ELSE newSparseTable(depth, hashP)
      idx1 == Index(leafHash(leaf1), depth)
      idx2 == Index(leafHash(leaf2), depth)
      other == CHOOSE i \in 0..(IndexLimit - 1) : i # idx1 /\ i # idx2
  IN IF idx1 # idx2
     THEN alloc(hp, tableInsert(tableInsert(empty, idx1, leaf1), other, leaf2))
     ELSE IF depth >= maxDepth
          THEN alloc(hp, tableInsert(empty, idx1,
                           newCollisionLeaf(keyVals(leaf1) \o keyVals(leaf2))))
          ELSE LET sub == createTableOf(hp, fixed, depth + 1,
                                        BuildHashPath(hashP, idx1, depth), leaf1, leaf2)
               IN alloc(sub.heap, tableInsert(empty, idx1, tblRef(sub.id)))

createTableOf(hp, fixed, depth, hashP, leaf1, leaf2) ==
  LET empty == IF fixed THEN newFixedTable(depth, hashP) ELSE newSparseTable(depth, hashP)
      idx1 == Index(leafHash(leaf1), depth)
      idx2 == Index(leafHash(leaf2), depth)
  IN IF idx1 # idx2
     THEN alloc(hp, tableInsert(tableInsert(empty, idx1, leaf1), idx2, leaf2))
     ELSE IF depth >= maxDepth
          THEN alloc(hp, tableInsert(empty, idx1,
                           newCollisionLeaf(keyVals(leaf1) \o keyVals(leaf2))))
          ELSE LET sub == createTableOf(hp, fixed, depth + 1,
                                        BuildHashPath(hashP, idx1, depth), leaf1, leaf2)
               IN alloc(sub.heap, tableInsert(empty, idx1, tblRef(sub.id)))

\* the elements of a set of numbers, ascending
RECURSIVE ascending(_)
ascending(S) ==
  IF S = {} THEN << >>
  ELSE LET m == CHOOSE x \in S : \A y \in S : x <= y
       IN << m >> \o ascending(S \ {m})

\* the tables that table t points to, in index order
children(t) ==
  LET at == ascending({i \in DOMAIN t.nodes : isTable(t.nodes[i])})
  IN [j \in 1..Len(at) |-> t.nodes[at[j]]]

\* the ids of the tables reachable from the nodes of todo, each once, in the
\* order a depth-first walk meets them
RECURSIVE walk(_, _, _)
walk(hp, todo, acc) ==
  IF todo = << >> THEN acc
  ELSE LET n == Head(todo)
       IN IF ~isTable(n) \/ (\E j \in 1..Len(acc) : acc[j] = n.id)
          THEN walk(hp, Tail(todo), acc)
          ELSE walk(hp, children(hp[n.id]) \o Tail(todo), Append(acc, n.id))

\* reachability-based release: the heap restricted to the tables the nodes
\* of rootSeq reach.  Addresses carry no meaning, so the tables kept are
\* renamed by their position in the walk; rename gives the new name of a node
position(order, id) == CHOOSE j \in 1..Len(order) : order[j] = id

rename(order, n) == IF isTable(n) THEN tblRef(position(order, n.id)) ELSE n

collect(hp, rootSeq) ==
  LET order == walk(hp, rootSeq, << >>)
  IN [heap |-> [j \in 1..Len(order) |->
                 [hp[order[j]] EXCEPT
                    !.nodes = [i \in DOMAIN @ |-> rename(order, @[i])]]],
      order |-> order]

(***************************************************************************)
(* hamtBase (src/hamt32/hamt_common.go)                                    *)
(***************************************************************************)
\* hamtBase.init(opt) on a zero-valued struct
init(opt) ==
  [root |-> Nil, nentries |-> 0,
   grade |-> (opt = HybridTables), startFixed |-> (opt = FixedTables)]

IsEmpty(h) == h.nentries = 0

Nentries(h) == h.nentries

\* the loop of hamtBase.find from depth on; path holds table ids, root first
RECURSIVE findFrom(_, _, _, _, _)
findFrom(hp, hv, curTable, path, depth) ==
  LET path2 == Append(path, curTable)
      idx == Index(hv, depth)
      curNode == tableGet(hp[curTable], idx)
  IN IF isNil(curNode)
     THEN [path |-> path2, leaf |-> Nil, idx |-> idx, panic |-> FALSE]
     ELSE IF isLeaf(curNode)
     THEN [path |-> path2, leaf |-> curNode, idx |-> idx, panic |-> FALSE]
     ELSE IF depth = maxDepth
     THEN [path |-> path2, leaf |-> Nil, idx |-> idx, panic |-> TRUE]
     ELSE findFrom(hp, hv, curNode.id, path2, depth + 1)

find(hp, h, k) == findFrom(hp, Hash(k), h.root.id, << >>, 0)

\* the loop of hamtBase.Get from depth on
RECURSIVE getFrom(_, _, _, _)
getFrom(hp, k, curTable, depth) ==
  LET idx == Index(Hash(k), depth)
      curNode == tableGet(hp[curTable], idx)
  IN IF isNil(curNode) THEN [val |-> NoVal, found |-> FALSE, panic |-> FALSE]
     ELSE IF isLeaf(curNode)
     THEN [val |-> leafGet(curNode, k).val, found |-> leafGet(curNode, k).found,
           panic |-> FALSE]
     ELSE IF depth = maxDepth THEN [val |-> NoVal, found |-> FALSE, panic |-> TRUE]
     ELSE getFrom(hp, k, curNode.id, depth + 1)

hamtBase_Get(hp, h, k) ==
  IF IsEmpty(h) THEN [val |-> NoVal, found |-> FALSE, panic |-> FALSE]
  ELSE getFrom(hp, k, h.root.id, 0)

createTable(hp, h, depth, leaf1, leaf2) ==
  createTableOf(hp, h.startFixed, depth, hashPath(leafHash(leaf1), depth), leaf1, leaf2)

\* the sum of a sequence of numbers
sum(ns) ==
  LET RECURSIVE sumTo(_)
      sumTo(n) == IF n = 0 THEN 0 ELSE ns[n] + sumTo(n - 1)
  IN sumTo(Len(ns))

\* countFn on a leaf: what it adds to KeyVals
leafPairs_One(n) == IF isLeaf(n) THEN 1 ELSE 0

leafPairs(n) ==
  IF n.kind = "flat" THEN 1
  ELSE IF n.kind = "coll" THEN Len(n.kvs)
  ELSE 0

\* the tables visit reaches from the root, the root first
visited(hp, h) == IF isNil(h.root) THEN << >> ELSE walk(hp, << h.root >>, << >>)

\* countFn over the nodes in the slots of the tables ids, nil slots of a
\* fixed table too: what it adds to the counter named
countNodes(hp, ids, counter) ==
  LET slotsOf(t) == IF t.fixed THEN [i \in 1..IndexLimit |-> t.nodes[i - 1]] ELSE t.nodes
      add(n) == CASE counter = "KeyVals" -> leafPairs(n)
                  [] counter = "Nils" -> IF isNil(n) THEN 1 ELSE 0
                  [] counter = "Leafs" -> IF isLeaf(n) THEN 1 ELSE 0
                  [] counter = "FlatLeafs" -> IF n.kind = "flat" THEN 1 ELSE 0
                  [] counter = "CollisionLeafs" -> IF n.kind = "coll" THEN 1 ELSE 0
  IN sum([j \in 1..Len(ids) |->
            LET slots == slotsOf(hp[ids[j]]) IN sum([i \in 1..Len(slots) |-> add(slots[i])])])

\* Counts.KeyVals over the visited tables ids
KeyVals(hp, ids) == countNodes(hp, ids, "KeyVals")

\* Counts.Tables over the visited tables ids
Tables(ids) == Len(ids)

\* Counts.TableCountsByNentries over the visited tables ids
TableCountsByNentries(hp, ids) ==
  [n \in 0..IndexLimit |->
     Cardinality({j \in 1..Len(ids) : tableNentries(hp[ids[j]]) = n})]

\* hamtBase.Count(): visit applies countFn to the root table and to every
\* node below it
Count(hp, h) ==
  LET ids == visited(hp, h)
      T == 1..Len(ids)
  IN [TableCountsByNentries |-> TableCountsByNentries(hp, ids),
      TableCountsByDepth |->
        [d \in 0..maxDepth |-> Cardinality({j \in T : hp[ids[j]].depth = d})],
      Nils |-> countNodes(hp, ids, "Nils"),
      Tables |-> Tables(ids),
      FixedTables |-> Cardinality({j \in T : hp[ids[j]].fixed}),
      SparseTables |-> Cardinality({j \in T : ~hp[ids[j]].fixed}),
      FlatLeafs |-> countNodes(hp, ids, "FlatLeafs"),
      CollisionLeafs |-> countNodes(hp, ids, "CollisionLeafs"),
      Leafs |-> countNodes(hp, ids, "Leafs"),
      Nodes |-> Len(ids) + countNodes(hp, ids, "Leafs"),
      KeyVals |-> KeyVals(hp, ids)]

(***************************************************************************)
(* HamtFunctional (src/hamt32/hamt_functional.go)                          *)
(***************************************************************************)
NewFunctional(opt) == init(opt)

\* persist links newTable (a table reference, or Nil) where oldTable was,
\* copying every ancestor left on path; h is the fresh copy of the map
RECURSIVE persist(_, _, _, _, _)
persist_DropsLink(hp, h, oldTable, newTable, path) ==
  IF IsEmpty(h) \/ tblRef(oldTable) = h.root
  THEN [heap |-> hp, h |-> [h EXCEPT !.root = newTable]]
  ELSE [heap |-> hp, h |-> h]

persist_InPlace(hp, h, oldTable, newTable, path) ==
  IF IsEmpty(h) THEN [heap |-> hp, h |-> [h EXCEPT !.root = newTable]]
  ELSE IF tblRef(oldTable) = h.root THEN [heap |-> hp, h |-> [h EXCEPT !.root = newTable]]
  ELSE LET parentIdx == Index(hp[oldTable].hashPath, Len(path) - 1)
           oldParent == path[Len(path)]
       IN [heap |-> IF isNil(newTable) THEN remove(hp, oldParent, parentIdx)
                    ELSE replace(hp, oldParent, parentIdx, newTable),
           h |-> h]

persist(hp, h, oldTable, newTable, path) ==
  IF IsEmpty(h) THEN [heap |-> hp, h |-> [h EXCEPT !.root = newTable]]
  ELSE IF tblRef(oldTable) = h.root THEN [heap |-> hp, h |-> [h EXCEPT !.root = newTable]]
  ELSE LET depth == Len(path)
           parentDepth == depth - 1
           parentIdx == Index(hp[oldTable].hashPath, parentDepth)
           oldParent == path[Len(path)]
           newParent == copy(hp, oldParent)
           hp2 == IF isNil(newTable)
                  THEN remove(newParent.heap, newParent.id, parentIdx)
                  ELSE replace(newParent.heap, newParent.id, parentIdx, newTable)
       IN persist(hp2, h, oldParent, tblRef(newParent.id), SubSeq(path, 1, Len(path) - 1))

\* one call of persist up to its recursive call: done with the root set, or
\* the arguments of the recursive call
persistStep_InPlace(hp, h, oldTable, newTable, path) ==
  IF IsEmpty(h) \/ tblRef(oldTable) = h.root
  THEN [done |-> TRUE, heap |-> hp, h |-> [h EXCEPT !.root = newTable],
        oldTable |-> oldTable, newTable |-> newTable, path |-> path]
  ELSE LET parentIdx == Index(hp[oldTable].hashPath, Len(path) - 1)
           oldParent == path[Len(path)]
       IN [done |-> TRUE,
           heap |-> IF isNil(newTable) THEN remove(hp, oldParent, parentIdx)
                    ELSE replace(hp, oldParent, parentIdx, newTable),
           h |-> h, oldTable |-> oldTable, newTable |-> newTable, path |-> path]

persistStep(hp, h, oldTable, newTable, path) ==
  IF IsEmpty(h) \/ tblRef(oldTable) = h.root
  THEN [done |-> TRUE, heap |-> hp, h |-> [h EXCEPT !.root = newTable],
        oldTable |-> oldTable, newTable |-> newTable, path |-> path]
  ELSE LET parentIdx == Index(hp[oldTable].hashPath, Len(path) - 1)
           oldParent == path[Len(path)]
           newParent == copy(hp, oldParent)
       IN [done |-> FALSE,
           heap |-> IF isNil(newTable)
                    THEN remove(newParent.heap, newParent.id, parentIdx)
                    ELSE replace(newParent.heap, newParent.id, parentIdx, newTable),
           h |-> h, oldTable |-> oldParent, newTable |-> tblRef(newParent.id),
           path |-> SubSeq(path, 1, Len(path) - 1)]

HamtFunctional_Get(hp, h, k) == hamtBase_Get(hp, h, k)

\* Put: if added { nh.nentries++ }
countAdded_Always(h, added) == [h EXCEPT !.nentries = @ + 1]

countAdded(h, added) == [h EXCEPT !.nentries = IF added THEN @ + 1 ELSE @]

\* Del: nh.nentries--
countDeleted_Not(h) == h

countDeleted(h) == [h EXCEPT !.nentries = @ - 1]

\* the table step of HamtFunctional.Put: the new version of curTable
putTable_Ungraded(hp, h, k, v, curTable, depth, leaf, idx) ==
  IF isNil(leaf)
  THEN LET nt == IF (tableNentries(hp[curTable]) + 1) = UpgradeThreshold
                 THEN upgradeToFixedTable(hp, hp[curTable].hashPath, depth,
                                          tableEntries(hp[curTable]))
                 ELSE copy(hp, curTable)
       IN [heap |-> insert(nt.heap, nt.id, idx, newFlatLeaf(k, v)),
           newTable |-> nt.id, added |-> TRUE]
  ELSE LET nt == copy(hp, curTable)
       IN IF leafHash(leaf) = Hash(k)
          THEN LET p == leafPut(leaf, k, v)
               IN [heap |-> replace(nt.heap, nt.id, idx, p.leaf),
                   newTable |-> nt.id, added |-> p.added]
          ELSE LET tmp == createTable(nt.heap, h, depth + 1, leaf, newFlatLeaf(k, v))
               IN [heap |-> replace(tmp.heap, nt.id, idx, tblRef(tmp.id)),
                   newTable |-> nt.id, added |-> TRUE]

putTable(hp, h, k, v, curTable, depth, leaf, idx) ==
  IF isNil(leaf)
  THEN LET nt == IF h.grade /\ (tableNentries(hp[curTable]) + 1) = UpgradeThreshold
                 THEN upgradeToFixedTable(hp, hp[curTable].hashPath, depth,
                                          tableEntries(hp[curTable]))
                 ELSE copy(hp, curTable)
       IN [heap |-> insert(nt.heap, nt.id, idx, newFlatLeaf(k, v)),
           newTable |-> nt.id, added |-> TRUE]
  ELSE LET nt == copy(hp, curTable)
       IN IF leafHash(leaf) = Hash(k)
          THEN LET p == leafPut(leaf, k, v)
               IN [heap |-> replace(nt.heap, nt.id, idx, p.leaf),
                   newTable |-> nt.id, added |-> p.added]
          ELSE LET tmp == createTable(nt.heap, h, depth + 1, leaf, newFlatLeaf(k, v))
               IN [heap |-> replace(tmp.heap, nt.id, idx, tblRef(tmp.id)),
                   newTable |-> nt.id, added |-> TRUE]

\* HamtFunctional.Put: the heap and the map returned, whether the pair was
\* added, whether the map returned is the receiver, whether find panicked
HamtFunctional_Put(hp, h, k, v) ==
  IF IsEmpty(h)
  THEN LET r == createRootTable(hp, newFlatLeaf(k, v))
       IN [heap |-> r.heap,
           h |-> [h EXCEPT !.root = tblRef(r.id), !.nentries = @ + 1],
           ok |-> TRUE, val |-> NoVal, same |-> FALSE, panic |-> FALSE]
  ELSE LET f == find(hp, h, k)
           curTable == f.path[Len(f.path)]
           path == SubSeq(f.path, 1, Len(f.path) - 1)
           depth == Len(path)
           st == putTable(hp, h, k, v, curTable, depth, f.leaf, f.idx)
           nh == countAdded(h, st.added)
           p == persist(st.heap, nh, curTable, tblRef(st.newTable), path)
       IN IF f.panic
          THEN [heap |-> hp, h |-> h, ok |-> FALSE, val |-> NoVal,
                same |-> TRUE, panic |-> TRUE]
          ELSE [heap |-> p.heap, h |-> p.h, ok |-> st.added, val |-> NoVal,
                same |-> FALSE, panic |-> FALSE]

\* the table step of HamtFunctional.Del: the new version of curTable, Nil
\* when it emptied
delTable_NoRemove(hp, h, curTable, depth, newLeaf, idx) ==
  LET nt == copy(hp, curTable)
  IN [heap |-> nt.heap, newTable |-> tblRef(nt.id)]

\* the leaf is taken out of curTable itself, no copy is made
delTable_InPlace(hp, h, curTable, depth, newLeaf, idx) ==
  [heap |-> IF ~isNil(newLeaf) THEN replace(hp, curTable, idx, newLeaf)
            ELSE remove(hp, curTable, idx),
   newTable |-> tblRef(curTable)]

delTable(hp, h, curTable, depth, newLeaf, idx) ==
  LET nt == copy(hp, curTable)
  IN IF ~isNil(newLeaf)
     THEN [heap |-> replace(nt.heap, nt.id, idx, newLeaf), newTable |-> tblRef(nt.id)]
     ELSE LET hp1 == remove(nt.heap, nt.id, idx)
          IN IF tableNentries(hp1[nt.id]) = 0
             THEN [heap |-> hp1, newTable |-> Nil]
             ELSE IF h.grade /\ tableNentries(hp1[nt.id]) = DowngradeThreshold
             THEN LET dn == downgradeToSparseTable(hp1, hp1[nt.id].hashPath, depth,
                                                   tableEntries(hp1[nt.id]))
                  IN [heap |-> dn.heap, newTable |-> tblRef(dn.id)]
             ELSE [heap |-> hp1, newTable |-> tblRef(nt.id)]

\* Del, the key is not in the map: return h, nil, false
delMiss_Copies(hp, h) ==
  [heap |-> hp, h |-> countDeleted(h), ok |-> FALSE, val |-> NoVal,
   same |-> FALSE, panic |-> FALSE]

delMiss(hp, h) ==
  [heap |-> hp, h |-> h, ok |-> FALSE, val |-> NoVal, same |-> TRUE, panic |-> FALSE]

\* HamtFunctional.Del
HamtFunctional_Del(hp, h, k) ==
  LET miss == delMiss(hp, h)
  IN IF IsEmpty(h) THEN miss
     ELSE LET f == find(hp, h, k)
              curTable == f.path[Len(f.path)]
              path == SubSeq(f.path, 1, Len(f.path) - 1)
              d == leafDel(f.leaf, k)
              depth == Len(path)
              st == delTable(hp, h, curTable, depth, d.leaf, f.idx)
              nh == countDeleted(h)
              p == persist(st.heap, nh, curTable, st.newTable, path)
          IN IF f.panic THEN [miss EXCEPT !.panic = TRUE]
             ELSE IF isNil(f.leaf) THEN miss
             ELSE IF ~d.deleted THEN miss
             ELSE [heap |-> p.heap, h |-> p.h, ok |-> TRUE, val |-> d.val,
                   same |-> FALSE, panic |-> FALSE]

\* tableI.deepCopy(): a new table for the table n names and for every table
\* below it; the leaves are shared
RECURSIVE deepCopy(_, _)
deepCopy_Shallow(hp, n) ==
  IF ~isTable(n) THEN [heap |-> hp, node |-> n]
  ELSE LET c == copy(hp, n.id) IN [heap |-> c.heap, node |-> tblRef(c.id)]

deepCopy(hp, n) ==
  IF ~isTable(n) THEN [heap |-> hp, node |-> n]
  ELSE LET c == copy(hp, n.id)
           slots == ascending({i \in DOMAIN hp[n.id].nodes : isTable(hp[n.id].nodes[i])})
           RECURSIVE below(_, _)
           below(hp1, j) ==
             IF j > Len(slots) THEN hp1
             ELSE LET d == deepCopy(hp1, hp1[c.id].nodes[slots[j]])
                  IN below([d.heap EXCEPT ![c.id].nodes[slots[j]] = d.node], j + 1)
       IN [heap |-> below(c.heap, 1), node |-> tblRef(c.id)]

\* HamtFunctional.ToFunctional: return h
HamtFunctional_ToFunctional_Copies(hp, h) ==
  LET d == deepCopy(hp, h.root)
  IN [heap |-> d.heap, h |-> [h EXCEPT !.root = d.node], panic |-> FALSE]

HamtFunctional_ToFunctional(hp, h) == [heap |-> hp, h |-> h, panic |-> FALSE]

\* HamtFunctional.ToTransient: h.root.deepCopy() is a method call on the
\* root, which is nil in a map with no table
HamtFunctional_ToTransient_NoGrade(hp, h) ==
  IF isNil(h.root) THEN [heap |-> hp, h |-> h, panic |-> TRUE]
  ELSE LET d == deepCopy(hp, h.root)
       IN [heap |-> d.heap,
           h |-> [root |-> d.node, nentries |-> h.nentries, grade |-> FALSE,
                  startFixed |-> h.startFixed],
           panic |-> FALSE]

HamtFunctional_ToTransient(hp, h) ==
  IF isNil(h.root) THEN [heap |-> hp, h |-> h, panic |-> TRUE]
  ELSE LET d == deepCopy(hp, h.root)
       IN [heap |-> d.heap,
           h |-> [root |-> d.node, nentries |-> h.nentries, grade |-> h.grade,
                  startFixed |-> h.startFixed],
           panic |-> FALSE]

\* HamtFunctional.DeepCopy
HamtFunctional_DeepCopy(hp, h) == HamtFunctional_ToTransient(hp, h)

\* HamtTransient.ToFunctional: a persistent root over a deep copy of the
\* table graph; a map with no table has nothing to copy
HamtTransient_ToFunctional(hp, h) ==
  LET d == deepCopy(hp, h.root)
  IN [heap |-> d.heap, h |-> [h EXCEPT !.root = d.node], panic |-> FALSE]

\* HamtTransient.ToTransient: return h
HamtTransient_ToTransient(hp, h) == [heap |-> hp, h |-> h, panic |-> FALSE]

(***************************************************************************)
(* Hamt, the in-place map (src/unnamed/part_001).  Its tables are the      *)
(* fullTable (fixed) and the compressedTable (sparse); fullinit is kept in *)
(* the field startFixed.                                                   *)
(***************************************************************************)
New(opt) ==
  [root |-> Nil, nentries |-> 0,
   grade |-> (opt = HybridTables), startFixed |-> (opt = FixedTables)]

Hamt_IsEmpty(h) == isNil(h.root)

Hamt_Nentries(h) == h.nentries

newRootTable(hp, depth, hashP, leaf) ==
  alloc(hp, tableInsert(newFixedTable(depth, hashP), Index(leafHash(leaf), depth), leaf))

newTable(hp, h, depth, hashP, leaf1, leaf2) ==
  createTableOf(hp, h.startFixed, depth, hashP, leaf1, leaf2)

upgradeToFullTable(hp, hashP, depth, ents) ==
  alloc(hp, insertAll(newFixedTable(depth, hashP), ents))

downgradeToCompressedTable(hp, hashP, depth, ents) ==
  alloc(hp, insertAll(newSparseTable(depth, hashP), ents))

\* leafI.put on a leaf owned by one map: a collision leaf that holds the key
\* has the value replaced in place, so the slot that holds the leaf (table
\* id, index idx) shows the new value without being set
putInPlace(hp, id, idx, leaf, k, v) ==
  LET p == leafPut(leaf, k, v)
  IN IF leaf.kind = "coll" /\ ~p.added
     THEN [heap |-> replace(hp, id, idx, p.leaf), leaf |-> p.leaf, added |-> FALSE]
     ELSE [heap |-> hp, leaf |-> p.leaf, added |-> p.added]

\* the loop of Hamt.Get from depth on
RECURSIVE Hamt_getFrom(_, _, _, _)
Hamt_getFrom(hp, k, curTable, depth) ==
  LET idx == Index(Hash(k), depth)
      curNode == tableGet(hp[curTable], idx)
  IN IF isNil(curNode) THEN [val |-> NoVal, found |-> FALSE, panic |-> FALSE]
     ELSE IF isLeaf(curNode)
     THEN [val |-> leafGet(curNode, k).val, found |-> leafGet(curNode, k).found,
           panic |-> FALSE]
     ELSE IF depth = maxDepth THEN [val |-> NoVal, found |-> FALSE, panic |-> TRUE]
     ELSE Hamt_getFrom(hp, k, curNode.id, depth + 1)

Hamt_Get(hp, h, k) ==
  IF Hamt_IsEmpty(h) THEN [val |-> NoVal, found |-> FALSE, panic |-> FALSE]
  ELSE Hamt_getFrom(hp, k, h.root.id, 0)

\* Put found an empty slot: store the leaf, then upgrade curTable if due
putEmptySlot(hp, h, k, v, depth, curTable, path, hashP, idx) ==
  LET hp1 == set(hp, curTable, idx, newFlatLeaf(k, v))
      h1 == [h EXCEPT !.nentries = @ + 1]
      up == upgradeToFullTable(hp1, hashP, depth, tableEntries(hp1[curTable]))
  IN IF h.grade /\ ~hp1[curTable].fixed
        /\ tableNentries(hp1[curTable]) >= upgradeThreshold
     THEN IF depth = 0
          THEN [heap |-> up.heap, h |-> [h1 EXCEPT !.root = tblRef(up.id)]]
          ELSE [heap |-> set(up.heap, path[Len(path)], Index(Hash(k), depth - 1),
                             tblRef(up.id)),
                h |-> h1]
     ELSE [heap |-> hp1, h |-> h1]

\* the loop of Hamt.Put from depth on
RECURSIVE putFrom(_, _, _, _, _, _, _, _)
putFrom(hp, h, k, v, depth, curTable, path, hashP) ==
  LET idx == Index(Hash(k), depth)
      curNode == tableGet(hp[curTable], idx)
      wtf == [heap |-> hp, h |-> h, ok |-> FALSE, val |-> NoVal,
              same |-> TRUE, panic |-> TRUE]
  IN IF depth > maxDepth THEN wtf
     ELSE IF isNil(curNode)
     THEN LET r == putEmptySlot(hp, h, k, v, depth, curTable, path, hashP, idx)
          IN [heap |-> r.heap, h |-> r.h, ok |-> TRUE, val |-> NoVal,
              same |-> TRUE, panic |-> FALSE]
     ELSE IF isLeaf(curNode)
     THEN IF leafHash(curNode) = Hash(k) \/ depth = maxDepth
          THEN IF leafHash(curNode) # Hash(k) THEN wtf
               ELSE LET p == putInPlace(hp, curTable, idx, curNode, k, v)
                    IN IF p.added
                       THEN [heap |-> set(p.heap, curTable, idx, p.leaf),
                             h |-> [h EXCEPT !.nentries = @ + 1],
                             ok |-> TRUE, val |-> NoVal, same |-> TRUE, panic |-> FALSE]
                       ELSE [heap |-> p.heap, h |-> h,
                             ok |-> FALSE, val |-> NoVal, same |-> TRUE, panic |-> FALSE]
          ELSE LET hashP2 == BuildHashPath(hashP, idx, depth)
                   ct == newTable(hp, h, depth + 1, hashP2, curNode, newFlatLeaf(k, v))
               IN [heap |-> set(ct.heap, curTable, idx, tblRef(ct.id)),
                   h |-> [h EXCEPT !.nentries = @ + 1],
                   ok |-> TRUE, val |-> NoVal, same |-> TRUE, panic |-> FALSE]
     ELSE putFrom(hp, h, k, v, depth + 1, curNode.id, Append(path, curTable),
                  BuildHashPath(hashP, idx, depth))

\* Hamt.Put
Hamt_Put(hp, h, k, v) ==
  IF Hamt_IsEmpty(h)
  THEN LET r == newRootTable(hp, 0, 0, newFlatLeaf(k, v))
       IN [heap |-> r.heap,
           h |-> [h EXCEPT !.root = tblRef(r.id), !.nentries = @ + 1],
           ok |-> TRUE, val |-> NoVal, same |-> TRUE, panic |-> FALSE]
  ELSE putFrom(hp, h, k, v, 0, h.root.id, << >>, 0)

\* Del, after the leaf is stored: downgrade curTable if due
delDowngrade(hp, h, k, depth, curTable, path, hashP, delLeaf) ==
  LET dn == downgradeToCompressedTable(hp, hashP, depth, tableEntries(hp[curTable]))
  IN IF h.grade /\ isNil(delLeaf) /\ hp[curTable].fixed
        /\ tableNentries(hp[curTable]) <= downgradeThreshold
     THEN IF depth = 0
          THEN [heap |-> dn.heap, h |-> [h EXCEPT !.root = tblRef(dn.id)],
                curTable |-> dn.id]
          ELSE [heap |-> set(dn.heap, path[Len(path)], Index(Hash(k), depth - 1),
                             tblRef(dn.id)),
                h |-> h, curTable |-> dn.id]
     ELSE [heap |-> hp, h |-> h, curTable |-> curTable]

\* Del, the collapse loop: while curTable below the root holds one entry
\* and it is a leaf, the leaf takes the place of curTable in its parent
RECURSIVE collapse(_, _, _, _)
collapse_Never(hp, curTable, depth, path) == [heap |-> hp, curTable |-> curTable]

collapse_WrongSlot(hp, curTable, depth, path) ==
  IF tableNentries(hp[curTable]) = 1 /\ depth > 0
  THEN LET node == tableEntries(hp[curTable])[1].node
           parentTable == path[Len(path)]
           parentIdx == Index(hp[curTable].hashPath, depth)
       IN IF ~isLeaf(node) THEN [heap |-> hp, curTable |-> curTable]
          ELSE collapse(set(hp, parentTable, parentIdx, node), parentTable,
                        depth - 1, SubSeq(path, 1, Len(path) - 1))
  ELSE [heap |-> hp, curTable |-> curTable]

collapse(hp, curTable, depth, path) ==
  IF tableNentries(hp[curTable]) = 1 /\ depth > 0
  THEN LET node == tableEntries(hp[curTable])[1].node
           parentTable == path[Len(path)]
           parentIdx == Index(hp[curTable].hashPath, depth - 1)
       IN IF ~isLeaf(node) THEN [heap |-> hp, curTable |-> curTable]
          ELSE collapse(set(hp, parentTable, parentIdx, node), parentTable,
                        depth - 1, SubSeq(path, 1, Len(path) - 1))
  ELSE [heap |-> hp, curTable |-> curTable]

\* the loop of Hamt.Del from depth on
RECURSIVE delFrom(_, _, _, _, _, _, _)
delFrom(hp, h, k, depth, curTable, path, hashP) ==
  LET idx == Index(Hash(k), depth)
      curNode == tableGet(hp[curTable], idx)
      miss == [heap |-> hp, h |-> h, ok |-> FALSE, val |-> NoVal,
               same |-> TRUE, panic |-> FALSE]
  IN IF depth > maxDepth THEN miss
     ELSE IF isNil(curNode) THEN miss
     ELSE IF isLeaf(curNode)
     THEN LET d == leafDel(curNode, k)
              delLeaf == IF d.deleted THEN d.leaf ELSE Nil
              h1 == [h EXCEPT !.nentries = @ - 1]
              hp1 == set(hp, curTable, idx, delLeaf)
              dg == delDowngrade(hp1, h1, k, depth, curTable, path, hashP, delLeaf)
              cl == collapse(dg.heap, dg.curTable, depth, path)
              h2 == IF tblRef(cl.curTable) = dg.h.root
                       /\ tableNentries(cl.heap[cl.curTable]) = 0
                    THEN [dg.h EXCEPT !.root = Nil]
                    ELSE dg.h
          IN IF ~d.deleted THEN miss
             ELSE [heap |-> cl.heap, h |-> h2, ok |-> TRUE, val |-> d.val,
                   same |-> TRUE, panic |-> FALSE]
     ELSE delFrom(hp, h, k, depth + 1, curNode.id, Append(path, curTable),
                  BuildHashPath(hashP, idx, depth))

\* Hamt.Del
Hamt_Del(hp, h, k) ==
  IF Hamt_IsEmpty(h)
  THEN [heap |-> hp, h |-> h, ok |-> FALSE, val |-> NoVal, same |-> TRUE, panic |-> FALSE]
  ELSE delFrom(hp, h, k, 0, h.root.id, << >>, 0)

(***************************************************************************)
(* The state machine: one map built by Put and Del from the map returned   *)
(* by New(functional, opt).                                                *)
(***************************************************************************)
VARIABLES
  heap,        \* the tables: address -> table
  h,           \* the map the caller holds
  Functional,  \* TRUE: h is a HamtFunctional; FALSE: h is the in-place Hamt
  TableOption, \* the option h was constructed with
  last,        \* the last call and what it returned
  saved,       \* an earlier version the caller kept, with what it answered
  actors,      \* the calls in progress of the actors sharing h
  iter         \* the iteration over h in progress

vars == << heap, h, Functional, TableOption, last, saved, actors, iter >>

Get(hp, m, k) == IF Functional THEN HamtFunctional_Get(hp, m, k) ELSE Hamt_Get(hp, m, k)

Put(hp, m, k, v) == IF Functional THEN HamtFunctional_Put(hp, m, k, v) ELSE Hamt_Put(hp, m, k, v)

Del(hp, m, k) == IF Functional THEN HamtFunctional_Del(hp, m, k) ELSE Hamt_Del(hp, m, k)

\* what Get answers for every key of map m
View(hp, m) ==
  [k \in Keys |-> LET g == Get(hp, m, k) IN [val |-> g.val, found |-> g.found]]

\* no call is in progress: the caller is between two calls
NoCall == [op |-> "none", key |-> 0, val |-> NoVal, ok |-> FALSE, ret |-> NoVal,
           same |-> TRUE, panic |-> FALSE]

NoSaved == [kept |-> FALSE]

\* no pair
NoKeyVal == [key |-> 0, val |-> NoVal]

\* no iteration is in progress
NoIter ==
  [mode |-> "none", stack |-> << >>, pending |-> << >>, out |-> << >>,
   done |-> FALSE, buffer |-> 0, chan |-> << >>, held |-> NoKeyVal, rest |-> << >>,
   producing |-> FALSE, closed |-> FALSE, cancellable |-> FALSE,
   cancelled |-> FALSE, late |-> 0]

\* the actors that share a map
Actors == {1, 2}

\* an actor with no call in progress
Idle ==
  [pc |-> "idle", op |-> "none", key |-> 0, val |-> NoVal, own |-> << >>,
   nh |-> init(SparseTables), path |-> << >>, oldTable |-> 0, newTable |-> Nil,
   leaf |-> Nil, idx |-> 0, ok |-> FALSE, ret |-> NoVal]

NoActors == [a \in Actors |-> Idle]

Init ==
  /\ Functional \in BOOLEAN
  /\ TableOption \in TableOptions
  /\ heap = << >>
  /\ h = IF Functional THEN NewFunctional(TableOption) ELSE New(TableOption)
  /\ last = NoCall
  /\ saved = NoSaved
  /\ actors = NoActors
  /\ iter = NoIter

\* the caller takes the map a call returned (r) for h, and holds sv as the
\* earlier version; tables that no held map reaches are released
InstallAs(r, sv, functional) ==
  LET gc == collect(r.heap, << r.h.root >> \o (IF sv.kept THEN << sv.h.root >> ELSE << >>))
  IN /\ heap' = gc.heap
     /\ h' = [r.h EXCEPT !.root = rename(gc.order, @)]
     /\ saved' = IF sv.kept THEN [sv EXCEPT !.h.root = rename(gc.order, @)] ELSE sv
     /\ Functional' = functional
     /\ UNCHANGED << TableOption, actors, iter >>

Install(r, sv) == InstallAs(r, sv, Functional)

Returned(op, k, v, r) ==
  /\ Install(r, saved)
  /\ last' = [op |-> op, key |-> k, val |-> v, ok |-> r.ok, ret |-> r.val,
              same |-> r.same, panic |-> FALSE]

\* a call panicked: the process aborts
Panicked(op, k, v, r) ==
  /\ last' = [op |-> op, key |-> k, val |-> v, ok |-> FALSE, ret |-> NoVal,
              same |-> TRUE, panic |-> TRUE]
  /\ UNCHANGED << heap, h, Functional, TableOption, saved, actors, iter >>

Called(op, k, v, r) == IF r.panic THEN Panicked(op, k, v, r) ELSE Returned(op, k, v, r)

FunctionalPut ==
  /\ Functional /\ last = NoCall /\ ~saved.kept
  /\ \E k \in Keys : \E v \in ValsOf(k) :
       Called("Put", k, v, HamtFunctional_Put(heap, h, k, v))

FunctionalDel ==
  /\ Functional /\ last = NoCall /\ ~saved.kept
  /\ \E k \in Keys : Called("Del", k, NoVal, HamtFunctional_Del(heap, h, k))

TransientPut ==
  /\ ~Functional /\ last = NoCall
  /\ \E k \in Keys : \E v \in ValsOf(k) :
       Called("Put", k, v, Hamt_Put(heap, h, k, v))

TransientDel ==
  /\ ~Functional /\ last = NoCall
  /\ \E k \in Keys : Called("Del", k, NoVal, Hamt_Del(heap, h, k))

\* the caller has looked at what the call returned and goes on
Resume ==
  /\ last # NoCall /\ ~last.panic
  /\ last' = NoCall
  /\ UNCHANGED << heap, h, Functional, TableOption, saved, actors, iter >>

Next == FunctionalPut \/ FunctionalDel \/ TransientPut \/ TransientDel \/ Resume

Spec == Init /\ [][Next]_vars

NoPanic == ~last.panic

(***************************************************************************)
(* Sharing: a HamtFunctional whose caller keeps the version m it calls     *)
(* Put on, and goes on calling Put and Del on the versions returned.       *)
(***************************************************************************)
\* number of keys drawn while a version is kept
NumShareKeys == 4

ShareKeys == 1..NumShareKeys

InitShare ==
  /\ Functional = TRUE
  /\ TableOption \in TableOptions
  /\ heap = << >>
  /\ h = NewFunctional(TableOption)
  /\ last = NoCall
  /\ saved = NoSaved
  /\ actors = NoActors
  /\ iter = NoIter

\* version m with what it answers at the time it is kept
Kept(m, op) ==
  [kept |-> TRUE, h |-> m, view |-> View(heap, m), n |-> m.nentries, op |-> op]

SharePut ==
  /\ \E k \in ShareKeys : \E v \in (IF saved.kept THEN ValsOf(k) ELSE {FirstVal}) :
       LET r == HamtFunctional_Put(heap, h, k, v) IN ~r.panic /\ Install(r, saved)
  /\ UNCHANGED last

ShareDel ==
  /\ \E k \in ShareKeys :
       LET r == HamtFunctional_Del(heap, h, k) IN ~r.panic /\ Install(r, saved)
  /\ UNCHANGED last

\* m.Put(k, v) where the caller keeps m
KeepPut ==
  /\ ~saved.kept
  /\ \E k \in ShareKeys : \E v \in ValsOf(k) :
       LET r == HamtFunctional_Put(heap, h, k, v)
       IN ~r.panic /\ Install(r, Kept(h, "Put"))
  /\ UNCHANGED last

NextShare == SharePut \/ ShareDel \/ KeepPut

SpecShare == InitShare /\ [][NextShare]_vars

\* m.Del(k) succeeds where the caller keeps m
KeepDel ==
  /\ ~saved.kept
  /\ \E k \in ShareKeys :
       LET r == HamtFunctional_Del(heap, h, k)
       IN ~r.panic /\ r.ok /\ Install(r, Kept(h, "Del"))
  /\ UNCHANGED last

NextShareDel == SharePut \/ ShareDel \/ KeepDel

SpecShareDel == InitShare /\ [][NextShareDel]_vars

(***************************************************************************)
(* Root: Put and Del, in either flavour, of keys that spread over the      *)
(* slots of the root table.                                                *)
(***************************************************************************)
\* keys 1, 2 and 6 share a root slot, keys 2 and 6 the slot below it as well;
\* keys 5 and 11 have the hash of key 1; keys 7, 9 and 10 have a root slot each
RootKeys == {1, 2, 5, 6, 7, 9, 10, 11}

RootPut ==
  /\ \E k \in RootKeys : LET r == Put(heap, h, k, FirstVal) IN ~r.panic /\ Install(r, saved)
  /\ UNCHANGED last

RootDel ==
  /\ \E k \in RootKeys : LET r == Del(heap, h, k) IN ~r.panic /\ Install(r, saved)
  /\ UNCHANGED last

NextRoot == RootPut \/ RootDel

SpecRoot == Init /\ [][NextRoot]_vars

(***************************************************************************)
(* Concurrency: actors run Get, Put and Del of HamtFunctional against one  *)
(* shared root h, a call advancing in steps (find, the new table, each     *)
(* level of persist) that interleave with the steps of the other actor.    *)
(* A table an actor allocates is known to that actor alone until the call  *)
(* returns: it sits in the actor's own arena, after the shared heap.       *)
(***************************************************************************)
\* the heap as actor a sees it
Seen(a) == heap \o actors[a].own

\* a step of actor a left the heap hp2 and the call in state st: tables up
\* to Len(heap) are the shared ones, the rest its own
Stepped(a, hp2, st) ==
  /\ heap' = SubSeq(hp2, 1, Len(heap))
  /\ actors' = [actors EXCEPT ![a] = [st EXCEPT !.own = SubSeq(hp2, Len(heap) + 1, Len(hp2))]]
  /\ UNCHANGED << h, Functional, TableOption, last, iter >>

\* the shared root with what it answers when the first actor calls
Shared ==
  [kept |-> TRUE, h |-> h, view |-> View(heap, h), n |-> h.nentries,
   op |-> "Share", heap |-> heap]

\* the map is built by one caller before it is shared
ConcBuild ==
  /\ ~saved.kept
  /\ \E k \in ShareKeys :
       LET r == HamtFunctional_Put(heap, h, k, FirstVal) IN ~r.panic /\ Install(r, saved)
  /\ UNCHANGED last

\* the value an actor puts k under: the last of its values, so that a key
\* of ValKeys built into the map is put under another value
LastVal(k) == CHOOSE v \in ValsOf(k) : \A w \in ValsOf(k) : w <= v

\* actor 2 calls once actor 1 has called: the actors are alike
MayCall(a) == actors[a].pc = "idle" /\ (a = 1 \/ actors[1].pc # "idle")

\* h.Get(k) by actor a
ConcGet(a) ==
  /\ MayCall(a)
  /\ \E k \in ShareKeys :
       LET g == HamtFunctional_Get(heap, h, k)
       IN Stepped(a, Seen(a), [Idle EXCEPT !.pc = "done", !.op = "Get", !.key = k,
                                            !.ok = g.found, !.ret = g.val])
  /\ saved' = IF saved.kept THEN saved ELSE Shared

\* actor a enters h.Put(k, v) or h.Del(k): nh is its copy of the map record
ConcCall(a) ==
  /\ MayCall(a)
  /\ \/ \E k \in ShareKeys :
          Stepped(a, Seen(a), [Idle EXCEPT !.pc = "find", !.op = "Put", !.key = k,
                                           !.val = LastVal(k), !.nh = h])
     \/ \E k \in ShareKeys :
          Stepped(a, Seen(a), [Idle EXCEPT !.pc = "find", !.op = "Del", !.key = k,
                                           !.nh = h])
  /\ saved' = IF saved.kept THEN saved ELSE Shared

\* Put up to find: the root table of an empty map, or the walk
ConcPutFind(a) ==
  LET st == actors[a]
      r == createRootTable(Seen(a), newFlatLeaf(st.key, st.val))
      f == find(Seen(a), st.nh, st.key)
  IN /\ st.pc = "find" /\ st.op = "Put"
     /\ IF IsEmpty(st.nh)
        THEN Stepped(a, r.heap,
               [st EXCEPT !.pc = "done", !.ok = TRUE,
                          !.nh = [@ EXCEPT !.root = tblRef(r.id), !.nentries = @ + 1]])
        ELSE /\ ~f.panic
             /\ Stepped(a, Seen(a),
                  [st EXCEPT !.pc = "table", !.leaf = f.leaf, !.idx = f.idx,
                             !.oldTable = f.path[Len(f.path)],
                             !.path = SubSeq(f.path, 1, Len(f.path) - 1)])
     /\ UNCHANGED saved

\* Del up to leaf.del: a miss returns the receiver
ConcDelFind(a) ==
  LET st == actors[a]
      f == find(Seen(a), st.nh, st.key)
      d == leafDel(f.leaf, st.key)
  IN /\ st.pc = "find" /\ st.op = "Del"
     /\ IF IsEmpty(st.nh) THEN Stepped(a, Seen(a), [st EXCEPT !.pc = "done"])
        ELSE /\ ~f.panic
             /\ IF isNil(f.leaf) \/ ~d.deleted
                THEN Stepped(a, Seen(a), [st EXCEPT !.pc = "done"])
                ELSE Stepped(a, Seen(a),
                       [st EXCEPT !.pc = "table", !.leaf = d.leaf, !.idx = f.idx,
                                  !.ret = d.val, !.ok = TRUE,
                                  !.oldTable = f.path[Len(f.path)],
                                  !.path = SubSeq(f.path, 1, Len(f.path) - 1)])
     /\ UNCHANGED saved

\* Put from find to persist: the new table and the count
ConcPutTable(a) ==
  LET st == actors[a]
      t == putTable(Seen(a), st.nh, st.key, st.val, st.oldTable, Len(st.path),
                    st.leaf, st.idx)
  IN /\ st.pc = "table" /\ st.op = "Put"
     /\ Stepped(a, t.heap,
          [st EXCEPT !.pc = "persist", !.newTable = tblRef(t.newTable),
                     !.ok = t.added, !.nh = countAdded(@, t.added)])
     /\ UNCHANGED saved

\* Del from leaf.del to persist: the new table and the count
ConcDelTable(a) ==
  LET st == actors[a]
      t == delTable(Seen(a), st.nh, st.oldTable, Len(st.path), st.leaf, st.idx)
  IN /\ st.pc = "table" /\ st.op = "Del"
     /\ Stepped(a, t.heap,
          [st EXCEPT !.pc = "persist", !.newTable = t.newTable,
                     !.nh = countDeleted(@)])
     /\ UNCHANGED saved

\* one call of persist
ConcPersist(a) ==
  LET st == actors[a]
      p == persistStep(Seen(a), st.nh, st.oldTable, st.newTable, st.path)
  IN /\ st.pc = "persist"
     /\ Stepped(a, p.heap,
          [st EXCEPT !.pc = IF p.done THEN "done" ELSE "persist", !.nh = p.h,
                     !.oldTable = p.oldTable, !.newTable = p.newTable,
                     !.path = p.path])
     /\ UNCHANGED saved

NextConc ==
  \/ ConcBuild
  \/ \E a \in Actors :
       \/ ConcGet(a) \/ ConcCall(a)
       \/ ConcPutFind(a) \/ ConcDelFind(a)
       \/ ConcPutTable(a) \/ ConcDelTable(a)
       \/ ConcPersist(a)

SpecConc == InitShare /\ [][NextConc]_vars

(***************************************************************************)
(* Conversion: a map of either flavour is built by Put and Del and         *)
(* converted to the other flavour.  The caller keeps the persistent source *)
(* p of t = p.ToTransient() and goes on with in-place Put and Del on t.    *)
(* deepCopy copies the tables, so t holds the leaves of p until a Put or   *)
(* Del on t stores another leaf in their place; saved.leaves has the       *)
(* hashes of the collision leaves that t still holds in common with p.     *)
(***************************************************************************)
\* keys 1 and 5 have one hash; keys 2 and 6 share digits 0 and 1
ConvKeys == {1, 2, 5, 6}

\* CollisionLeaf.put of a key the leaf holds, called by the in-place Put
\* that returned r: the value is replaced in the leaf itself, so the slot of
\* p that holds the same leaf shows it too
putShared(r, k, v) ==
  LET f == find(heap, saved.h, k)
  IN IF saved.kept /\ ~r.ok /\ Hash(k) \in saved.leaves
     THEN [r EXCEPT !.heap = replace(r.heap, f.path[Len(f.path)], f.idx,
                                     leafPut(f.leaf, k, v).leaf)]
     ELSE r

\* a Put that added a pair and a Del that deleted one store a new leaf
Unshared(r, k) ==
  IF saved.kept /\ r.ok THEN [saved EXCEPT !.leaves = @ \ {Hash(k)}] ELSE saved

ConvPut ==
  /\ ~last.panic
  /\ \E k \in ConvKeys :
       LET v == IF saved.kept THEN LastVal(k) ELSE FirstVal
           r == Put(heap, h, k, v)
       IN ~r.panic /\ Install(putShared(r, k, v), Unshared(r, k))
  /\ UNCHANGED last

ConvDel ==
  /\ ~last.panic
  /\ \E k \in ConvKeys :
       LET r == Del(heap, h, k) IN ~r.panic /\ Install(r, Unshared(r, k))
  /\ UNCHANGED last

ConvToTransient ==
  /\ Functional /\ ~saved.kept /\ ~last.panic
  /\ LET r == HamtFunctional_ToTransient(heap, h)
         p == [kept |-> TRUE, h |-> h, view |-> View(heap, h), n |-> h.nentries,
               op |-> "ToTransient",
               leaves |-> {Hash(k) : k \in {x \in ConvKeys :
                                              find(heap, h, x).leaf.kind = "coll"}}]
     IN IF r.panic THEN Panicked("ToTransient", 0, NoVal, r)
        ELSE InstallAs(r, p, FALSE) /\ UNCHANGED last

ConvToFunctional ==
  /\ ~Functional /\ ~saved.kept /\ ~last.panic
  /\ InstallAs(HamtTransient_ToFunctional(heap, h), saved, TRUE)
  /\ UNCHANGED last

\* c = m.DeepCopy() on a HamtFunctional m; the caller keeps m and goes on
\* with c
ConvDeepCopy ==
  /\ Functional /\ ~saved.kept /\ ~last.panic
  /\ LET r == HamtFunctional_DeepCopy(heap, h)
         p == [kept |-> TRUE, h |-> h, view |-> View(heap, h), n |-> h.nentries,
               op |-> "DeepCopy", leaves |-> {}]
     IN IF r.panic THEN Panicked("DeepCopy", 0, NoVal, r)
        ELSE InstallAs(r, p, TRUE) /\ UNCHANGED last

\* m2 = m.ToFunctional() on a HamtFunctional m; the caller keeps m
ConvSame ==
  /\ Functional /\ ~saved.kept /\ ~last.panic
  /\ InstallAs(HamtFunctional_ToFunctional(heap, h),
               [kept |-> TRUE, h |-> h, view |-> View(heap, h), n |-> h.nentries,
                op |-> "ToFunctional", leaves |-> {}],
               TRUE)
  /\ UNCHANGED last

NextConv ==
  \/ ConvPut \/ ConvDel \/ ConvToTransient \/ ConvToFunctional \/ ConvSame
  \/ ConvDeepCopy

SpecConv == Init /\ [][NextConv]_vars

(***************************************************************************)
(* Iteration.  The pull iterator keeps a stack of (table, next index)      *)
(* frames and the pairs of the leaf it is emitting.  The push iterator is  *)
(* a producer that runs the pull iterator and hands each pair to a channel *)
(* of the size the caller gave, by a select on the send and the            *)
(* cancellation signal; the consumer receives until the channel is closed  *)
(* and empty, or cancels and stops.  The map is built before it is         *)
(* iterated and stays as it is meanwhile.                                  *)
(***************************************************************************)
\* largest channel buffer length the caller asks for
MaxBuffer == 2

\* keys 1 and 5 have one hash, keys 2 and 6 share two digits, key 7 has a
\* root slot of its own
IterKeys == {1, 2, 5, 6, 7}

\* from the frames of stack to the next leaf, if any: an empty slot is
\* passed, a table pushes a frame, a finished table pops its frame
RECURSIVE advance(_, _)
advance(hp, stack) ==
  IF stack = << >> THEN [stack |-> << >>, leaf |-> Nil]
  ELSE LET top == stack[Len(stack)]
           n == tableGet(hp[top.table], top.idx)
           bumped == [stack EXCEPT ![Len(stack)].idx = @ + 1]
       IN IF top.idx >= IndexLimit THEN advance(hp, SubSeq(stack, 1, Len(stack) - 1))
          ELSE IF isNil(n) THEN advance(hp, bumped)
          ELSE IF isLeaf(n) THEN [stack |-> bumped, leaf |-> n]
          ELSE advance(hp, Append(bumped, [table |-> n.id, idx |-> 0]))

\* Iter(): the iterator at the first slot of the root
Iter(hp, m) ==
  [NoIter EXCEPT !.mode = "pull",
                 !.stack = IF isNil(m.root) THEN << >>
                           ELSE << [table |-> m.root.id, idx |-> 0] >>]

\* one call of the iterator: the next pair of the leaf being emitted, or
\* the first pair of the next leaf, or no pair
next_FirstOfLeaf(hp, it) ==
  LET a == advance(hp, it.stack)
  IN IF isNil(a.leaf)
     THEN [kv |-> NoKeyVal, ok |-> FALSE, it |-> [it EXCEPT !.stack = << >>]]
     ELSE [kv |-> keyVals(a.leaf)[1], ok |-> TRUE, it |-> [it EXCEPT !.stack = a.stack]]

next(hp, it) ==
  IF it.pending # << >>
  THEN [kv |-> Head(it.pending), ok |-> TRUE, it |-> [it EXCEPT !.pending = Tail(@)]]
  ELSE LET a == advance(hp, it.stack)
       IN IF isNil(a.leaf)
          THEN [kv |-> NoKeyVal, ok |-> FALSE, it |-> [it EXCEPT !.stack = << >>]]
          ELSE [kv |-> keyVals(a.leaf)[1], ok |-> TRUE,
                it |-> [it EXCEPT !.stack = a.stack, !.pending = Tail(keyVals(a.leaf))]]

\* the pairs that the calls of the iterator return in turn until it
\* reports no more
RECURSIVE drain(_, _)
drain(hp, it) ==
  LET r == next(hp, it)
  IN IF r.ok THEN << r.kv >> \o drain(hp, r.it) ELSE << >>

\* the producer takes the next pair to hand over; with no pair left it
\* closes the channel and ends
feed_NoClose(it) ==
  IF it.rest # << >> THEN [it EXCEPT !.held = Head(it.rest), !.rest = Tail(@)]
  ELSE [it EXCEPT !.held = NoKeyVal, !.producing = FALSE]

feed(it) ==
  IF it.rest # << >> THEN [it EXCEPT !.held = Head(it.rest), !.rest = Tail(@)]
  ELSE [it EXCEPT !.held = NoKeyVal, !.producing = FALSE, !.closed = TRUE]

\* IterChan(buffer) and IterChanWithCancel(buffer): the channel and the
\* producer, started.  The producer runs the iterator over a map that stays
\* as it is, so the pairs it is still to take (rest) are those that the
\* iterator returns in turn
IterChanWithCancel(hp, m, buffer, cancellable) ==
  feed([NoIter EXCEPT !.mode = "chan", !.buffer = buffer,
                      !.cancellable = cancellable, !.producing = TRUE,
                      !.rest = drain(hp, Iter(hp, m))])

\* the cases of the producer's select that can proceed: the send when the
\* buffer has room or, with no buffer, the consumer is receiving; the
\* cancellation once it is signalled
ready_SendOnly(it) ==
  {c \in {"send"} :
     IF it.buffer = 0 THEN ~it.done ELSE Len(it.chan) < it.buffer}

ready(it) ==
  {c \in {"send", "cancel"} :
     /\ c = "send" => IF it.buffer = 0 THEN ~it.done ELSE Len(it.chan) < it.buffer
     /\ c = "cancel" => it.cancelled}

IterPut ==
  /\ iter.mode = "none"
  /\ \E k \in IterKeys :
       LET r == Put(heap, h, k, FirstVal) IN ~r.panic /\ Install(r, saved)
  /\ UNCHANGED last

IterDel ==
  /\ iter.mode = "none"
  /\ \E k \in IterKeys : LET r == Del(heap, h, k) IN ~r.panic /\ Install(r, saved)
  /\ UNCHANGED last

\* next = h.Iter()
IterStart ==
  /\ iter.mode = "none"
  /\ iter' = Iter(heap, h)
  /\ UNCHANGED << heap, h, Functional, TableOption, last, saved, actors >>

\* kv, ok = next()
IterNext ==
  /\ iter.mode = "pull" /\ ~iter.done
  /\ LET r == next(heap, iter)
     IN iter' = IF r.ok THEN [r.it EXCEPT !.out = Append(@, r.kv)]
                ELSE [r.it EXCEPT !.done = TRUE]
  /\ UNCHANGED << heap, h, Functional, TableOption, last, saved, actors >>

\* h.IterChan(buffer), h.IterChanWithCancel(buffer)
IterChanStart ==
  /\ iter.mode = "none"
  /\ \E buffer \in 0..MaxBuffer : \E cancellable \in BOOLEAN :
       iter' = IterChanWithCancel(heap, h, buffer, cancellable)
  /\ UNCHANGED << heap, h, Functional, TableOption, last, saved, actors >>

\* the select of the producer takes the send: the pair goes into the buffer
\* or, with no buffer, to the consumer
ProducerSend ==
  /\ iter.mode = "chan" /\ iter.producing /\ "send" \in ready(iter)
  /\ LET placed == IF iter.buffer = 0 THEN [iter EXCEPT !.out = Append(@, iter.held)]
                   ELSE [iter EXCEPT !.chan = Append(@, iter.held)]
     IN iter' = feed([placed EXCEPT !.late = IF iter.cancelled THEN @ + 1 ELSE @])
  /\ UNCHANGED << heap, h, Functional, TableOption, last, saved, actors >>

\* the select of the producer takes the cancellation: the producer ends
ProducerStop ==
  /\ iter.mode = "chan" /\ iter.producing /\ "cancel" \in ready(iter)
  /\ iter' = [iter EXCEPT !.held = NoKeyVal, !.rest = << >>, !.producing = FALSE,
                          !.closed = TRUE]
  /\ UNCHANGED << heap, h, Functional, TableOption, last, saved, actors >>

Produce == ProducerSend \/ ProducerStop

\* the consumer receives a pair from the buffer
Receive ==
  /\ iter.mode = "chan" /\ ~iter.done /\ iter.chan # << >>
  /\ iter' = [iter EXCEPT !.out = Append(@, Head(iter.chan)), !.chan = Tail(@)]
  /\ UNCHANGED << heap, h, Functional, TableOption, last, saved, actors >>

\* the consumer finds the channel closed and empty: its loop ends
Finish ==
  /\ iter.mode = "chan" /\ ~iter.done /\ iter.chan = << >> /\ iter.closed
  /\ iter' = [iter EXCEPT !.done = TRUE]
  /\ UNCHANGED << heap, h, Functional, TableOption, last, saved, actors >>

Consume == Receive \/ Finish

\* the consumer calls cancel and leaves its loop
Cancel ==
  /\ iter.mode = "chan" /\ iter.cancellable /\ ~iter.cancelled /\ ~iter.done
  /\ iter' = [iter EXCEPT !.cancelled = TRUE, !.done = TRUE]
  /\ UNCHANGED << heap, h, Functional, TableOption, last, saved, actors >>

NextIter ==
  \/ IterPut \/ IterDel \/ IterStart \/ IterNext
  \/ IterChanStart \/ Produce \/ Consume \/ Cancel

SpecIter == Init /\ [][NextIter]_vars

\* the producer and the consumer are scheduled as long as they can step
SpecIterLive == Init /\ [][NextIter]_vars /\ WF_vars(Produce) /\ WF_vars(Consume)

(***************************************************************************)
(* Two flavours side by side: a HamtFunctional h, whose caller takes each  *)
(* returned version, and an in-place Hamt saved.h, both built from empty   *)
(* with one table option by the same calls of Put and Del.  last holds     *)
(* what the HamtFunctional's call returned, saved what the Hamt's did.     *)
(***************************************************************************)
InitPair ==
  /\ Functional = TRUE
  /\ TableOption \in TableOptions
  /\ heap = << >>
  /\ h = NewFunctional(TableOption)
  /\ last = NoCall
  /\ saved = [kept |-> TRUE, h |-> New(TableOption), ok |-> FALSE, ret |-> NoVal]
  /\ actors = NoActors
  /\ iter = NoIter

PairPut ==
  \E k \in ConvKeys : \E v \in ValsOf(k) :
     LET p == HamtFunctional_Put(heap, h, k, v)
         t == Hamt_Put(p.heap, saved.h, k, v)
     IN /\ ~p.panic /\ ~t.panic
        /\ Install([heap |-> t.heap, h |-> p.h],
                   [kept |-> TRUE, h |-> t.h, ok |-> t.ok, ret |-> t.val])
        /\ last' = [op |-> "Put", key |-> k, val |-> v, ok |-> p.ok, ret |-> p.val,
                    same |-> p.same, panic |-> FALSE]

PairDel ==
  \E k \in ConvKeys :
     LET p == HamtFunctional_Del(heap, h, k)
         t == Hamt_Del(p.heap, saved.h, k)
     IN /\ ~p.panic /\ ~t.panic
        /\ Install([heap |-> t.heap, h |-> p.h],
                   [kept |-> TRUE, h |-> t.h, ok |-> t.ok, ret |-> t.val])
        /\ last' = [op |-> "Del", key |-> k, val |-> NoVal, ok |-> p.ok, ret |-> p.val,
                    same |-> p.same, panic |-> FALSE]

NextPair == PairPut \/ PairDel

SpecPair == InitPair /\ [][NextPair]_vars

(***************************************************************************)
(* Properties                                                              *)
(***************************************************************************)
Found(hp, m, k, v) == Get(hp, m, k).found /\ Get(hp, m, k).val = v

Absent(hp, m, k) == ~Get(hp, m, k).found

IsEmptyMap(m) == IF Functional THEN IsEmpty(m) ELSE Hamt_IsEmpty(m)

\* C1: after (m2, _) = m.Put(k, v), m2.Get(k) returns (v, true)
InsertThenGet == last.op = "Put" => Found(heap, h, last.key, last.val)

\* C2: Put(k, v2) of a key already present returns inserted=false, Get(k) of
\* the resulting map returns (v2, true), and Nentries() is as before
ReplaceSemantics ==
  [][(last'.op = "Put" /\ ~Absent(heap, h, last'.key))
       => (/\ ~last'.ok
           /\ Found(heap', h', last'.key, last'.val)
           /\ h'.nentries = h.nentries)]_vars

\* C3: Put(k, v) returns inserted=true iff k was not present before the call,
\* and Nentries() grows by one exactly when inserted is true
InsertedIffAbsent ==
  [][last'.op = "Put"
       => (/\ last'.ok <=> Absent(heap, h, last'.key)
           /\ h'.nentries = h.nentries + (IF last'.ok THEN 1 ELSE 0))]_vars

\* a Put returned inserted=true for a key whose hash another stored key has
PutJoinedCollision ==
  /\ last.op = "Put" /\ last.ok
  /\ \E k \in Keys \ {last.key} : Hash(k) = Hash(last.key) /\ ~Absent(heap, h, k)

\* C4: after (m2, _, true) = m.Del(k), m2.Get(k) returns found=false
DeleteThenGet == (last.op = "Del" /\ last.ok) => Absent(heap, h, last.key)

\* a Del took a key out of a collision leaf, the other key stays
DeletedFromCollision ==
  /\ last.op = "Del" /\ last.ok
  /\ \E k \in Keys \ {last.key} : Hash(k) = Hash(last.key) /\ ~Absent(heap, h, k)

\* C5: Del(k) of a key present with value v returns deleted=true and v, and
\* Nentries() drops by one
DelReturnsValue ==
  [][(last'.op = "Del" /\ ~Absent(heap, h, last'.key))
       => (/\ last'.ok
           /\ last'.ret = Get(heap, h, last'.key).val
           /\ h'.nentries = h.nentries - 1)]_vars

\* a Del returned the highest value, from a map that keeps other pairs
DeletedLastValue ==
  last.op = "Del" /\ last.ok /\ last.ret = NumVals /\ h.nentries >= 2

\* C6: Del(k) of an absent key returns the map it was called on, the nil
\* value and deleted=false, and changes neither Nentries(), nor a table or
\* leaf, nor what Get answers
DelMissChangesNothing ==
  [][(last'.op = "Del" /\ Absent(heap, h, last'.key))
       => (/\ ~last'.ok /\ last'.ret = NoVal /\ last'.same
           /\ heap' = heap /\ h' = h
           /\ View(heap', h') = View(heap, h))]_vars

\* a Del missed in a leaf that holds another key of the same hash
MissedInLeaf ==
  /\ last.op = "Del" /\ ~last.ok
  /\ \E k \in Keys \ {last.key} : Hash(k) = Hash(last.key) /\ ~Absent(heap, h, k)

\* C7: in m.Del(k) followed by Del(k) on the result, the second call returns
\* deleted=false and leaves the map unchanged, whatever the first returned
IdempotentDelete ==
  last.op = "Del"
    => LET second == Del(heap, h, last.key)
       IN ~second.ok /\ second.same /\ second.heap = heap /\ second.h = h

\* a Del succeeded on a map that keeps pairs, and Del of the key again misses
DeletedThenMisses ==
  last.op = "Del" /\ last.ok /\ h.nentries >= 1 /\ ~Del(heap, h, last.key).ok

\* C8: for a key absent from m, putting it and then deleting it yields a map
\* with the Nentries() of m and the Get of m on every key
PutThenDelIdentity ==
  [][(last'.op = "Put" /\ Absent(heap, h, last'.key))
       => LET del == Del(heap', h', last'.key)
          IN /\ del.ok
             /\ del.h.nentries = h.nentries
             /\ View(del.heap, del.h) = View(heap, h)]_vars

\* a Put of an absent key built tables two levels below the root, and Del
\* of the key succeeds
PushedDownThenDeleted ==
  last.op = "Put" /\ last.ok /\ Len(heap) >= 3 /\ Del(heap, h, last.key).ok

\* no key is found: IsEmpty() is true and Nentries() is 0
EmptiedIsEmpty == (\A k \in Keys : Absent(heap, h, k)) => (IsEmptyMap(h) /\ h.nentries = 0)

\* a Put on a map where no key is found is answered as on a fresh map
PutOnEmptied ==
  [][((\A k \in Keys : Absent(heap, h, k)) /\ last'.op = "Put")
       => (/\ last'.ok
           /\ Found(heap', h', last'.key, last'.val)
           /\ h'.nentries = 1 /\ ~IsEmptyMap(h')
           /\ \A k \in Keys \ {last'.key} : Absent(heap', h', k))]_vars

\* C9: once every key put has been deleted IsEmpty() is true and Nentries()
\* is 0, and a Put on that map followed by Get is answered as on a fresh map
AllDeletedIsFresh == []EmptiedIsEmpty /\ PutOnEmptied

\* a Del took the last pair out of the map
LastPairDeleted ==
  /\ last.op = "Del" /\ last.ok
  /\ \A k \in Keys : Absent(heap, h, k)
  /\ IsEmptyMap(h)

\* C10: m.Put(k, v) on a HamtFunctional, and whatever Put and Del follow on
\* the maps returned, leave Get of every key and Nentries() of m as they were
PutLeavesReceiver ==
  (saved.kept /\ saved.op = "Put")
    => (View(heap, saved.h) = saved.view /\ saved.h.nentries = saved.n)

\* m is kept, and the version held now has a table below the root upgraded
\* to fixed where m has the sparse one
KeptAcrossUpgrade ==
  /\ saved.kept /\ saved.op = "Put" /\ TableOption = HybridTables
  /\ saved.h.root # h.root
  /\ \E i, j \in 1..Len(heap) :
       /\ heap[i].depth = 1 /\ heap[i].fixed
       /\ heap[j].depth = 1 /\ ~heap[j].fixed

Alone(a) ==
  LET st == actors[a]
  IN IF st.op = "Put" THEN HamtFunctional_Put(heap, h, st.key, st.val)
     ELSE IF st.op = "Del" THEN HamtFunctional_Del(heap, h, st.key)
     ELSE LET g == HamtFunctional_Get(heap, h, st.key)
          IN [heap |-> heap, h |-> h, ok |-> g.found, val |-> g.val]

\* C12: while actors run Get, Put and Del on a shared HamtFunctional, under
\* every interleaving no table reachable from the shared root is written,
\* the shared root answers every Get as before, and the map and the results
\* a call returns are those of the call run alone on the shared root
SharedRootSafe ==
  saved.kept
    => /\ heap = saved.heap /\ h = saved.h
       /\ View(heap, h) = saved.view /\ h.nentries = saved.n
       /\ \A a \in Actors :
            actors[a].pc = "done"
              => LET st == actors[a]
                     r == Alone(a)
                 IN /\ st.ok = r.ok
                    /\ (st.op # "Put" => st.ret = r.val)
                    /\ (st.op = "Put" => (st.nh = r.h /\ Seen(a) = r.heap))
                    /\ ((st.op = "Del" /\ st.ok) => (st.nh = r.h /\ Seen(a) = r.heap))

\* a Put and a Del are both between two levels of persist, each actor with
\* tables of its own
BothInPersist ==
  /\ actors[1].pc = "persist" /\ actors[2].pc = "persist"
  /\ actors[1].op # actors[2].op
  /\ Len(actors[1].own) >= 2 /\ Len(actors[2].own) >= 2

\* C13: after any sequence of Put and Del the pairs Count() finds in the
\* trie (one per flat leaf, the list length per collision leaf) are
\* Nentries() many, and TableCountsByNentries sums to the number of tables
CountConsistency ==
  LET ids == visited(heap, h)
      byN == TableCountsByNentries(heap, ids)
  IN /\ KeyVals(heap, ids) = h.nentries
     /\ sum([n \in 1..(IndexLimit + 1) |-> byN[n - 1]]) = Tables(ids)

\* a Put or Del returned a map with a collision leaf, a flat leaf and a
\* table below the root
CountedCollision ==
  LET c == Count(heap, h)
  IN /\ last.op # "none"
     /\ c.CollisionLeafs >= 1 /\ c.FlatLeafs >= 1 /\ c.Tables >= 2
     /\ c.KeyVals = 3

\* C14: after any sequence of Put and Del, in either flavour, every table
\* reachable from the root other than the root holds at least 2 entries
InteriorHasTwo ==
  LET ids == visited(heap, h)
  IN \A j \in 2..Len(ids) : tableNentries(heap[ids[j]]) >= 2

\* C15: with grade set (HybridTables), after any sequence of Put and Del no
\* fixed table reachable below the root holds fewer entries than the
\* downgrade threshold of its flavour, and no sparse table reachable below
\* the root holds as many entries as the upgrade threshold or more
GradedPopulation ==
  LET ids == visited(heap, h)
      down == IF Functional THEN DowngradeThreshold ELSE downgradeThreshold
      up == IF Functional THEN UpgradeThreshold ELSE upgradeThreshold
  IN h.grade =>
       \A j \in 2..Len(ids) :
          LET t == heap[ids[j]]
          IN IF t.fixed THEN tableNentries(t) >= down ELSE tableNentries(t) < up

\* C16: after any sequence of Put and Del, under every table option and in
\* either flavour, the table stored as the root of the map is a fixed table
\* at depth 0
RootIsFixed == ~isNil(h.root) => (heap[h.root.id].fixed /\ heap[h.root.id].depth = 0)

\* C18: with grade unset no table changes kind: under FixedTables every
\* table reachable after any sequence of Put and Del is fixed, and under
\* SparseTables every table reachable below the root is sparse
KindsKept ==
  LET ids == visited(heap, h)
  IN /\ TableOption = FixedTables => \A j \in 1..Len(ids) : heap[ids[j]].fixed
     /\ TableOption = SparseTables => \A j \in 2..Len(ids) : ~heap[ids[j]].fixed

\* under SparseTables a Put filled a table below the root up to the upgrade
\* threshold of its flavour
SparseAtUpgrade ==
  LET ids == visited(heap, h)
  IN /\ TableOption = SparseTables /\ last.op = "Put" /\ last.ok
     /\ \E j \in 2..Len(ids) :
          tableNentries(heap[ids[j]]) >=
            (IF Functional THEN UpgradeThreshold ELSE upgradeThreshold)

\* C17: the table option sets the flags (FixedTables: startFixed only,
\* SparseTables: neither, HybridTables: grade only), and every map returned
\* by Put, Del, ToTransient and DeepCopy carries the flags of its source
FlagsCarried ==
  LET asOption(m) == /\ m.startFixed = (TableOption = FixedTables)
                     /\ m.grade = (TableOption = HybridTables)
  IN /\ asOption(h)
     /\ saved.kept => asOption(saved.h)
     /\ (Functional /\ ~isNil(h.root)) => asOption(HamtFunctional_DeepCopy(heap, h).h)

\* a graded map made by ToTransient has gone through an in-place Put or Del
\* that left it with other pairs than its source
GradedTransientChanged ==
  /\ saved.kept /\ saved.op = "ToTransient" /\ ~Functional
  /\ TableOption = HybridTables
  /\ h.nentries # saved.n

\* C19: for every reachable map m, m.ToFunctional().ToTransient() and
\* m.ToTransient().ToFunctional() are returned, answer every Get as m does
\* and have the Nentries() of m
RoundTrip ==
  LET f == IF Functional THEN HamtFunctional_ToFunctional(heap, h)
           ELSE HamtTransient_ToFunctional(heap, h)
      ft == HamtFunctional_ToTransient(f.heap, f.h)
      t == IF Functional THEN HamtFunctional_ToTransient(heap, h)
           ELSE HamtTransient_ToTransient(heap, h)
      tf == HamtTransient_ToFunctional(t.heap, t.h)
  IN ~last.panic =>
       /\ ~ft.panic /\ ~t.panic
       /\ [k \in Keys |-> LET g == Hamt_Get(ft.heap, ft.h, k)
                           IN [val |-> g.val, found |-> g.found]] = View(heap, h)
       /\ [k \in Keys |-> LET g == HamtFunctional_Get(tf.heap, tf.h, k)
                           IN [val |-> g.val, found |-> g.found]] = View(heap, h)
       /\ ft.h.nentries = h.nentries /\ tf.h.nentries = h.nentries

ToFunctionalSame ==
  Functional =>
    HamtFunctional_ToFunctional(heap, h) = [heap |-> heap, h |-> h, panic |-> FALSE]

\* the caller holds m and m.ToFunctional() of a map with a table below the
\* root, and they are one map
ToFunctionalReturned ==
  /\ saved.kept /\ saved.op = "ToFunctional" /\ Functional
  /\ saved.h = h /\ Len(visited(heap, h)) >= 2

\* C22: c = m.DeepCopy() is returned for every persistent map m, has the
\* Nentries(), grade and startFixed of m, answers every Get as m does and
\* shares no table with m; a Put or Del on either changes no Get of the other
DeepCopySeparate ==
  /\ (Functional /\ ~last.panic) =>
       LET d == HamtFunctional_DeepCopy(heap, h)
           get(hp, m) == [k \in Keys |-> LET g == HamtFunctional_Get(hp, m, k)
                                         IN [val |-> g.val, found |-> g.found]]
       IN /\ ~d.panic
          /\ d.h.nentries = h.nentries
          /\ d.h.grade = h.grade /\ d.h.startFixed = h.startFixed
          /\ get(d.heap, d.h) = get(heap, h)
          /\ \A i \in 1..Len(visited(d.heap, d.h)) : \A j \in 1..Len(visited(heap, h)) :
               visited(d.heap, d.h)[i] # visited(heap, h)[j]
          /\ \A k \in ConvKeys :
               /\ get(HamtFunctional_Put(d.heap, h, k, LastVal(k)).heap, d.h) = get(heap, h)
               /\ get(HamtFunctional_Del(d.heap, h, k).heap, d.h) = get(heap, h)
  /\ (saved.kept /\ saved.op = "DeepCopy") =>
       /\ [k \in Keys |-> LET g == HamtFunctional_Get(heap, saved.h, k)
                           IN [val |-> g.val, found |-> g.found]] = saved.view
       /\ saved.h.nentries = saved.n
       /\ \A i \in 1..Len(visited(heap, saved.h)) : \A j \in 1..Len(visited(heap, h)) :
            visited(heap, saved.h)[i] # visited(heap, h)[j]

\* C26: after any successful Del, in either flavour, no table reachable
\* below the root holds exactly one entry that is a leaf
CollapsedAfterDel ==
  LET ids == visited(heap, h)
  IN (last.op = "Del" /\ last.ok) =>
       \A j \in 2..Len(ids) :
          LET t == heap[ids[j]]
          IN ~(tableNentries(t) = 1 /\ isLeaf(tableEntries(t)[1].node))

\* C27: after any Put or Del, in either flavour, every table reachable below
\* the root holds at least one entry
NoEmptyInterior ==
  LET ids == visited(heap, h)
  IN \A j \in 2..Len(ids) : tableNentries(heap[ids[j]]) >= 1

\* the places <<table, slot>> of the reachable leaves that hold key k
placesOf(hp, m, k) ==
  LET ids == visited(hp, m)
  IN {p \in {ids[j] : j \in 1..Len(ids)} \X (0..(IndexLimit - 1)) :
        LET n == tableGet(hp[p[1]], p[2])
        IN isLeaf(n) /\ kvIndex(keyVals(n), k) # 0}

\* every reachable collision leaf holds two pairs or more, of distinct keys
\* that all have one hash; keys of one hash that are stored sit in one leaf
\* and in one place
CollisionLeaves ==
  LET ids == visited(heap, h)
  IN /\ \A j \in 1..Len(ids) : \A i \in 0..(IndexLimit - 1) :
          LET n == tableGet(heap[ids[j]], i)
          IN n.kind = "coll" =>
               /\ Len(n.kvs) >= 2
               /\ \A a, b \in 1..Len(n.kvs) :
                    /\ a # b => n.kvs[a].key # n.kvs[b].key
                    /\ Hash(n.kvs[a].key) = Hash(n.kvs[b].key)
     /\ \A k1, k2 \in RootKeys :
          (/\ k1 # k2 /\ Hash(k1) = Hash(k2)
           /\ placesOf(heap, h, k1) # {} /\ placesOf(heap, h, k2) # {}) =>
             /\ placesOf(heap, h, k1) = placesOf(heap, h, k2)
             /\ Cardinality(placesOf(heap, h, k1)) = 1

\* a step that takes a key out of a collision leaf of two pairs leaves the
\* other pair in a flat leaf in that slot; a step that stores a key whose
\* hash is the hash of the leaf in its slot makes no table
CollisionStep ==
  \A k \in RootKeys :
     (~isNil(h.root) /\ ~isNil(h'.root)) =>
        LET f == find(heap, h, k)
            g == find(heap', h', k)
        IN /\ (/\ f.leaf.kind = "coll" /\ Len(f.leaf.kvs) = 2
               /\ kvIndex(f.leaf.kvs, k) # 0
               /\ placesOf(heap', h', k) # {}
               /\ \E i \in 1..2 : placesOf(heap', h', f.leaf.kvs[i].key) = {}) =>
                 /\ g.leaf = newFlatLeaf(k, leafGet(f.leaf, k).val)
                 /\ Len(g.path) = Len(f.path) /\ g.idx = f.idx
           /\ (/\ isLeaf(f.leaf) /\ leafHash(f.leaf) = Hash(k)
               /\ kvIndex(keyVals(f.leaf), k) = 0
               /\ placesOf(heap', h', k) # {}) =>
                 /\ g.leaf = leafPut(f.leaf, k, FirstVal).leaf
                 /\ Len(g.path) = Len(f.path) /\ g.idx = f.idx
                 /\ Len(visited(heap', h')) = Len(visited(heap, h))

\* C28: keys of one hash are stored together in one collision leaf and
\* nowhere else; a reachable collision leaf holds at least two pairs, of
\* distinct keys of the hash of the leaf; a Del from a collision leaf of two
\* pairs leaves a flat leaf in the same slot; a Put of a key with the hash
\* of the leaf in its slot makes no table
CollisionHandling == []CollisionLeaves /\ [][CollisionStep]_vars

\* a collision leaf of three pairs sits in a table below the root, beside
\* another leaf, and a flat leaf sits in the root
CollisionBelowRoot ==
  /\ Len(visited(heap, h)) >= 2
  /\ \E k \in RootKeys :
       /\ ~isNil(h.root) /\ Len(find(heap, h, k).path) = 2
       /\ find(heap, h, k).leaf.kind = "coll"
       /\ Len(find(heap, h, k).leaf.kvs) = 3
       /\ tableNentries(heap[find(heap, h, k).path[2]]) >= 2
  /\ tableNentries(heap[h.root.id]) >= 2

\* every reachable leaf is where find arrives with the hash of its keys: in
\* the slot of its digit at the depth of its table, below the slots of its
\* earlier digits
LeavesInPlace ==
  LET ids == visited(heap, h)
  IN \A j \in 1..Len(ids) : \A i \in 0..(IndexLimit - 1) :
        LET t == heap[ids[j]]
            n == tableGet(t, i)
        IN isLeaf(n) =>
             /\ Index(leafHash(n), t.depth) = i
             /\ \A d \in 0..(t.depth - 1) :
                  Index(leafHash(n), d) = Index(t.hashPath, d)
             /\ LET f == find(heap, h, keyVals(n)[1].key)
                IN /\ f.path[Len(f.path)] = ids[j] /\ Len(f.path) = t.depth + 1
                   /\ f.idx = i /\ f.leaf = n

\* the first depth from d on at which two hashes differ
RECURSIVE firstDiff(_, _, _)
firstDiff(h1, h2, d) ==
  IF d >= maxDepth \/ Index(h1, d) # Index(h2, d) THEN d ELSE firstDiff(h1, h2, d + 1)

\* a step that stores a key where a leaf of another hash is leaves both
\* leaves in two slots of one table, at the first depth where their digits
\* differ
PlacementStep ==
  \A k \in RootKeys :
     (~isNil(h.root) /\ ~isNil(h'.root)) =>
        LET f == find(heap, h, k)
            g == find(heap', h', k)
        IN (/\ isLeaf(f.leaf) /\ leafHash(f.leaf) # Hash(k)
            /\ placesOf(heap', h', k) # {}) =>
              LET r == find(heap', h', keyVals(f.leaf)[1].key)
              IN /\ g.leaf = newFlatLeaf(k, FirstVal) /\ r.leaf = f.leaf
                 /\ g.path = r.path /\ g.idx # r.idx
                 /\ Len(g.path) - 1 = firstDiff(Hash(k), leafHash(f.leaf), 0)

\* C29: every leaf in slot i of a table at depth d has digit i at depth d
\* and the digits of the slots on the path from the root before it; a Put
\* that meets a leaf of another hash leaves both leaves in distinct slots of
\* a table at the first depth where their digits differ
LeafPlacement == []LeavesInPlace /\ [][PlacementStep]_vars

\* two leaves of hashes that agree on two digits sit in two slots of a table
\* at depth 2, and a leaf sits in the root
PlacedAtDepthTwo ==
  /\ ~isNil(h.root)
  /\ Len(find(heap, h, 2).path) = 3 /\ find(heap, h, 2).leaf.kind = "flat"
  /\ find(heap, h, 6).path = find(heap, h, 2).path /\ find(heap, h, 6).leaf.kind = "flat"
  /\ placesOf(heap, h, 7) # {}

\* C30: no call of Put or Del panics, find and Get panic for no key (they
\* meet no table in a slot of a table at maxDepth and end at maxDepth or
\* before), and no reachable table is deeper than maxDepth
NoStructuralError ==
  LET ids == visited(heap, h)
  IN /\ ~last.panic
     /\ \A j \in 1..Len(ids) :
          /\ heap[ids[j]].depth <= maxDepth
          /\ heap[ids[j]].depth = maxDepth =>
               \A i \in 0..(IndexLimit - 1) : ~isTable(tableGet(heap[ids[j]], i))
     /\ \A k \in Keys :
          /\ ~Get(heap, h, k).panic
          /\ ~isNil(h.root) =>
               /\ ~find(heap, h, k).panic
               /\ Len(find(heap, h, k).path) <= maxDepth + 1

\* a Put has stored its key in a table at maxDepth
PutAtMaxDepth ==
  /\ last.op = "Put" /\ last.ok /\ ~isNil(h.root)
  /\ Len(find(heap, h, last.key).path) = maxDepth + 1
  /\ find(heap, h, last.key).leaf = newFlatLeaf(last.key, last.val)

\* the pairs stored in the map the caller holds
storedPairs ==
  {[key |-> k, val |-> Get(heap, h, k).val] : k \in {x \in IterKeys : Get(heap, h, x).found}}

\* the pairs handed out so far are stored pairs, each once, and when the
\* iteration has ended they are all the pairs and Nentries() many
handedOut ==
  /\ \A i \in 1..Len(iter.out) :
       /\ iter.out[i] \in storedPairs
       /\ \A j \in 1..Len(iter.out) : i # j => iter.out[i].key # iter.out[j].key
  /\ (iter.done /\ ~iter.cancelled) =>
       /\ Len(iter.out) = h.nentries
       /\ {iter.out[i] : i \in 1..Len(iter.out)} = storedPairs

\* C23: the pairs that Iter() has returned are pairs that Get returns, each
\* key once; when the iterator reports no more it has returned Nentries()
\* pairs, every stored pair among them, those of collision leaves included
IterComplete == iter.mode = "pull" => handedOut

\* the iterator has ended on a map with a collision leaf, a table at depth
\* 2 and two entries in the root
IteratedAll ==
  /\ iter.mode = "pull" /\ iter.done /\ Len(iter.out) = 5

\* C24: for every buffer length the consumer of IterChan receives pairs
\* that Get returns, each key once; it finds the channel closed after
\* Nentries() pairs, all the stored ones, and its loop always ends
ChanComplete ==
  /\ [](iter.mode = "chan" => handedOut)
  /\ ((iter.mode = "chan" /\ ~iter.cancellable) ~> iter.done)

\* the consumer's loop has ended after five pairs over a channel with no
\* buffer
ReceivedAll ==
  /\ iter.mode = "chan" /\ ~iter.cancellable /\ iter.buffer = 0
  /\ iter.done /\ Len(iter.out) = 5

ThresholdsApart ==
  /\ DowngradeThreshold < UpgradeThreshold
  /\ downgradeThreshold < upgradeThreshold
  /\ (32 * 3) \div 8 = 12 /\ 32 \div 2 = 16 /\ 12 + 1 < 16
  /\ 64 \div 8 = 8 /\ 64 \div 2 = 32 /\ 8 + 1 < 32

\* under HybridTables the call after a Put that upgraded a table, or after a
\* Del that downgraded one, turns that table back only in a HamtFunctional
\* whose thresholds are one apart
KindKeptByNextCall ==
  LET kinds(hp, m) ==
        LET ids == visited(hp, m)
        IN {<< hp[ids[j]].depth, hp[ids[j]].hashPath, hp[ids[j]].fixed >> :
              j \in 1..Len(ids)}
      turned(hp1, m1, hp2, m2, fixed) ==
        LET was == kinds(hp1, m1)
        IN {<< p[1], p[2] >> :
              p \in {q \in kinds(hp2, m2) :
                       q[3] = fixed /\ << q[1], q[2], ~fixed >> \in was}}
      up == turned(heap, h, heap', h', TRUE)
      down == turned(heap, h, heap', h', FALSE)
  IN (TableOption = HybridTables /\ last = NoCall /\ ~last'.panic) =>
        /\ (last'.op = "Put" /\ up # {}) =>
             \A k \in Keys :
                LET after == Del(heap', h', k)
                IN turned(heap', h', after.heap, after.h, FALSE) \cap up # {}
                     => Functional /\ DowngradeThreshold + 1 = UpgradeThreshold
        /\ (last'.op = "Del" /\ down # {}) =>
             \A k \in Keys :
                LET after == Put(heap', h', k, FirstVal)
                IN turned(heap', h', after.heap, after.h, TRUE) \cap down # {}
                     => Functional /\ DowngradeThreshold + 1 = UpgradeThreshold

PutIsLocal ==
  [][\A k \in Keys :
        (last'.op = "Put" /\ ~last'.panic /\ k # last'.key) =>
           /\ Get(heap', h', k).val = Get(heap, h, k).val
           /\ Get(heap', h', k).found = Get(heap, h, k).found]_vars

\* a Put has pushed the leaf of key 2 down into a new table at maxDepth,
\* below a table that an earlier Put had upgraded, and key 2 and a key of
\* another slot of the upgraded table are still found
PushedDownBelowUpgraded ==
  /\ TableOption = HybridTables
  /\ last.op = "Put" /\ last.ok /\ last.key = 6
  /\ Get(heap, h, 2).found /\ Get(heap, h, 3).found
  /\ LET path == find(heap, h, 6).path
     IN /\ Len(path) = maxDepth + 1
        /\ tableNentries(heap[path[Len(path)]]) = 2
        /\ heap[path[Len(path) - 1]].fixed
        /\ heap[path[Len(path) - 1]].depth > 0

\* C35: a Del of key k changes what Get answers for no other key: for every
\* key other than k, those of k's hash or of a hash that shares leading
\* digits with it included, Get on the map the Del leaves answers the value
\* and the found flag it answered before the Del
DelIsLocal ==
  [][\A k \in Keys :
        (last'.op = "Del" /\ ~last'.panic /\ k # last'.key) =>
           /\ Get(heap', h', k).val = Get(heap, h, k).val
           /\ Get(heap', h', k).found = Get(heap, h, k).found]_vars

\* a Del has taken key 5 out of the collision leaf it shared with key 1,
\* which is a flat leaf now and still found, as is key 6 at maxDepth
FlatAfterDel ==
  /\ last.op = "Del" /\ last.ok /\ last.key = 5
  /\ Get(heap, h, 1).found /\ Get(heap, h, 6).found
  /\ \E v \in Vals : find(heap, h, 1).leaf = newFlatLeaf(1, v)
  /\ Len(find(heap, h, 6).path) = maxDepth + 1

\* the dictionary a map stands for: what Get answers for each key
absent == [val |-> NoVal, found |-> FALSE]

\* the dictionary is empty at the start, Nentries is its size and IsEmpty
\* holds exactly when it is empty
DictionaryCounted ==
  LET ref == View(heap, h)
      size == Cardinality({k \in Keys : ref[k].found})
  IN Functional =>
       /\ last = NoCall /\ heap = << >> => ref = [k \in Keys |-> absent]
       /\ \A k \in Keys : ~ref[k].found => ref[k] = absent
       /\ Nentries(h) = size
       /\ IsEmpty(h) <=> size = 0

\* a Put or a Del acts on the dictionary as the dictionary's own operation
DictionaryStep ==
  LET ref == View(heap, h)
  IN Functional /\ last = NoCall =>
       /\ last'.op = "Put" =>
            /\ ~last'.panic
            /\ View(heap', h') =
                 [ref EXCEPT ![last'.key] = [val |-> last'.val, found |-> TRUE]]
            /\ last'.ok <=> ~ref[last'.key].found
       /\ last'.op = "Del" =>
            /\ ~last'.panic
            /\ View(heap', h') = [ref EXCEPT ![last'.key] = absent]
            /\ last'.ok <=> ref[last'.key].found
            /\ last'.ret = ref[last'.key].val

FlavoursAgree ==
  /\ last.ok = saved.ok
  /\ last.ret = saved.ret
  /\ Nentries(h) = Hamt_Nentries(saved.h)
  /\ \A k \in Keys :
       /\ HamtFunctional_Get(heap, h, k).val = Hamt_Get(heap, saved.h, k).val
       /\ HamtFunctional_Get(heap, h, k).found = Hamt_Get(heap, saved.h, k).found

\* the in-place Hamt holds a nil root exactly when it counts no entry
NilRootCounted ==
  ~Functional =>
     /\ isNil(h.root) <=> h.nentries = 0
     /\ h.nentries >= 0
     /\ Hamt_IsEmpty(h) <=> (\A k \in Keys \cup RootKeys : ~Hamt_Get(heap, h, k).found)
     /\ ~isNil(h.root) => tableNentries(heap[h.root.id]) > 0
     /\ (last.op = "Del" /\ last.ok /\ h.nentries = 0) =>
          (isNil(h.root) /\ heap = << >>)

\* C38: in the in-place Hamt, whose IsEmpty tests root == nil, the root is
\* nil exactly when nentries is 0, nentries is never negative, a root that
\* is not nil holds an entry, and after a Del that has left no pair the
\* root is nil and no table is reachable
RootNilIffNoEntries == []NilRootCounted

\* a Del on the in-place Hamt has deleted the last pair, the pair of key 6,
\* which shares two digits with key 2: the root is nil again
RootResetToNil ==
  /\ ~Functional
  /\ last.op = "Del" /\ last.ok /\ last.key = 6
  /\ h.nentries = 0 /\ isNil(h.root)

\* in a HamtFunctional the root is at depth 0, a table held in slot i of a
\* table at depth d is at depth d + 1 and carries the prefix of its parent
\* extended by digit i at d, and the path of find for a key ends in a table
\* whose depth is the length of the path less one
PrefixesMatchSlots ==
  Functional =>
    LET ids == visited(heap, h)
    IN /\ ~isNil(h.root) => heap[h.root.id].depth = 0
       /\ \A j \in 1..Len(ids) : \A i \in 0..(IndexLimit - 1) :
            LET t == heap[ids[j]]
                n == tableGet(t, i)
            IN isTable(n) =>
                 /\ heap[n.id].depth = t.depth + 1
                 /\ Index(heap[n.id].hashPath, heap[n.id].depth - 1) = i
                 /\ heap[n.id].hashPath = BuildHashPath(t.hashPath, i, t.depth)
       /\ \A k \in Keys \cup RootKeys :
            ~isNil(h.root) =>
               LET path == find(heap, h, k).path
               IN /\ Len(path) - 1 = heap[path[Len(path)]].depth
                  /\ \A j \in 2..Len(path) :
                       Index(heap[path[j]].hashPath, j - 2) = Index(Hash(k), j - 2)

\* a Put or a successful Del on a HamtFunctional with pairs leaves each
\* table on the key's path that it has copied or rebuilt, with the prefix
\* of the old table, in the slot of the new parent that held the old table
\* in the old parent, which is the slot the old table's prefix names
LinkedInSameSlot ==
  (Functional /\ last = NoCall /\ last'.ok /\ ~IsEmpty(h) /\ ~isNil(h'.root)) =>
     LET was == find(heap, h, last'.key).path
         path == find(heap', h', last'.key).path
     IN \A j \in 2..Len(path) : j <= Len(was) =>
          \A i \in 0..(IndexLimit - 1) :
             tableGet(heap[was[j - 1]], i) = tblRef(was[j]) =>
                /\ Index(heap[was[j]].hashPath, j - 2) = i
                /\ tableGet(heap'[path[j - 1]], i) = tblRef(path[j])
                /\ heap'[path[j]].hashPath = heap[was[j]].hashPath

\* C39: in every HamtFunctional reachable by Put and Del each table below
\* the root carries a prefix whose last digit is the index of the slot of
\* its parent that holds it, persist links the new copy of a table into the
\* slot of the new parent that the old table had in the old parent, and the
\* path of find is one longer than the depth of the table it ends in
TablePrefix == []PrefixesMatchSlots /\ [][LinkedInSameSlot]_vars

\* a Put on a HamtFunctional has upgraded the table below the root on its
\* path, and the fixed table sits in the slot its prefix names
UpgradedInSlot ==
  /\ Functional /\ TableOption = HybridTables
  /\ last.op = "Put" /\ last.ok /\ ~isNil(h.root)
  /\ LET path == find(heap, h, last.key).path
     IN /\ Len(path) = 2
        /\ heap[path[2]].fixed
        /\ tableNentries(heap[path[2]]) = UpgradeThreshold
        /\ tableGet(heap[path[1]], Index(heap[path[2]].hashPath, 0)) = tblRef(path[2])
====
